---- MODULE Spec2Model ----
(***************************************************************************)
(* Model of the smartito multi-agent workflow: the LangGraph state machine *)
(* of MultiAgentWorkflow (interpret -> clarify | analyze -> synthesize,    *)
(* plus the error node), the Business Analyst's clarification policy and   *)
(* the Data Analyst's analyze_request.  Texts are TLA+ strings and the     *)
(* phrase tests are real substring tests on the lower-cased text.          *)
(* The reasoning capability (the LLM) and the warehouse are external: each *)
(* of their answers is a nondeterministic choice from a small set.         *)
(***************************************************************************)
EXTENDS Integers, Sequences, FiniteSets, TLC

\* ------------------------------------------------------------------ bounds

\* A context handed to the Data Analyst holds the first n <= MaxPriorResults
\* tool results of a sample earlier analysis.
MaxPriorResults == 3

\* A caller asks at most this many questions on one thread.
MaxRuns == 2

\* Histories handed to run are the last n turns of a sample conversation, n <= MaxHistory.
MaxHistory == 3

\* The capability requests at most this many tool calls in one response.
MaxToolCalls == 2

\* ------------------------------------------------------------------ text

\* Python's `p in s` on str.
Contains(s, p) ==
    IF Len(p) = 0 THEN TRUE
    ELSE \E i \in 1..(Len(s) - Len(p) + 1) : SubSeq(s, i, i + Len(p) - 1) = p

\* any(p in s for p in phrases)
ContainsAny(s, phrases) == \E p \in phrases : Contains(s, p)

UpperChars == "ABCDEFGHIJKLMNOPQRSTUVWXYZÁÉÍÓÚÑ"

LowerChars == "abcdefghijklmnopqrstuvwxyzáéíóúñ"

LowerChar(c) ==
    IF \E k \in 1..Len(UpperChars) : SubSeq(UpperChars, k, k) = c
    THEN LET k == CHOOSE k \in 1..Len(UpperChars) : SubSeq(UpperChars, k, k) = c
         IN  SubSeq(LowerChars, k, k)
    ELSE c

\* str.lower()
RECURSIVE lower(_)
lower(s) ==
    IF Len(s) = 0 THEN ""
    ELSE IF Len(s) = 1 THEN LowerChar(s)
    ELSE lower(SubSeq(s, 1, Len(s) \div 2)) \o lower(SubSeq(s, Len(s) \div 2 + 1, Len(s)))

IsSpace(c) == c \in {" ", "\n", "\t", "\r"}

\* str.strip()
RECURSIVE strip(_)
strip(s) ==
    IF Len(s) = 0 THEN ""
    ELSE IF IsSpace(SubSeq(s, 1, 1)) THEN strip(SubSeq(s, 2, Len(s)))
    ELSE IF IsSpace(SubSeq(s, Len(s), Len(s))) THEN strip(SubSeq(s, 1, Len(s) - 1))
    ELSE s

\* str.split('\n')
RECURSIVE SplitLines(_)
SplitLines(s) ==
    IF \E i \in 1..Len(s) : SubSeq(s, i, i) = "\n"
    THEN LET i == CHOOSE i \in 1..Len(s) :
                     /\ SubSeq(s, i, i) = "\n"
                     /\ \A j \in 1..(i - 1) : SubSeq(s, j, j) # "\n"
         IN  <<SubSeq(s, 1, i - 1)>> \o SplitLines(SubSeq(s, i + 1, Len(s)))
    ELSE <<s>>

\* seq[:n]
Take(seq, n) == SubSeq(seq, 1, IF Len(seq) < n THEN Len(seq) ELSE n)

\* seq[-n:]
LastN(seq, n) == SubSeq(seq, IF Len(seq) > n THEN Len(seq) - n + 1 ELSE 1, Len(seq))

\* str(i) for the numbers enumerate(questions, 1) produces
IntToStr(i) == SubSeq("0123456789", i + 1, i + 1)

\* ------------------------------------------------------------------ patterns

\* The regular expressions of the Data Analyst, as sequences of tokens:
\* a literal, \s*, \s+, ['"], a capture group, an optional (?:lit\s+)?.
Lit(v) == [t |-> "lit", v |-> v]
Ws0 == [t |-> "ws0", v |-> ""]
Ws1 == [t |-> "ws1", v |-> ""]
Quote == [t |-> "quote", v |-> ""]
Cap(kind) == [t |-> "cap", v |-> kind]
Opt(v) == [t |-> "opt", v |-> v]

CharAt(s, i) == IF i >= 1 /\ i <= Len(s) THEN SubSeq(s, i, i) ELSE ""

Digits == "0123456789"

IsDigit(c) == c # "" /\ Contains(Digits, c)

IsUpperAZ(c) == c # "" /\ Contains("ABCDEFGHIJKLMNOPQRSTUVWXYZ", c)

\* \w
IsWordChar(c) == c # "" /\ Contains(LowerChars \o UpperChars \o Digits \o "_", c)

RECURSIVE SkipSpaces(_, _)
SkipSpaces(s, i) == IF IsSpace(CharAt(s, i)) THEN SkipSpaces(s, i + 1) ELSE i

RECURSIVE WordEnd(_, _)
WordEnd(s, i) == IF IsWordChar(CharAt(s, i)) THEN WordEnd(s, i + 1) ELSE i

\* The position after the capture group of the given kind at i, 0 for none:
\* (\d{4}-\d{2}-\d{2}), (\d{4}), ([A-Z]{2}), (\w+).
CaptureEnd(s, i, kind) ==
    CASE kind = "date" ->
            (IF /\ \A k \in {0, 1, 2, 3, 5, 6, 8, 9} : IsDigit(CharAt(s, i + k))
                /\ CharAt(s, i + 4) = "-"
                /\ CharAt(s, i + 7) = "-"
             THEN i + 10 ELSE 0)
      [] kind = "year" ->
            (IF \A k \in 0..3 : IsDigit(CharAt(s, i + k)) THEN i + 4 ELSE 0)
      [] kind = "upper2" ->
            (IF IsUpperAZ(CharAt(s, i)) /\ IsUpperAZ(CharAt(s, i + 1)) THEN i + 2 ELSE 0)
      [] OTHER ->
            (IF WordEnd(s, i) > i THEN WordEnd(s, i) ELSE 0)

NoMatch == [ok |-> FALSE, capture |-> "", end |-> 0]

\* re.match of the pattern at position i of s.
RECURSIVE MatchFrom(_, _, _, _)
MatchFrom(s, i, pat, capture) ==
    IF pat = <<>> THEN [ok |-> TRUE, capture |-> capture, end |-> i]
    ELSE LET tok  == Head(pat)
             rest == Tail(pat)
         IN  CASE tok.t = "lit" ->
                     (IF CharAt(s, i + Len(tok.v) - 1) # "" /\ SubSeq(s, i, i + Len(tok.v) - 1) = tok.v
                      THEN MatchFrom(s, i + Len(tok.v), rest, capture)
                      ELSE NoMatch)
               [] tok.t = "ws0" -> MatchFrom(s, SkipSpaces(s, i), rest, capture)
               [] tok.t = "ws1" ->
                     (IF IsSpace(CharAt(s, i))
                      THEN MatchFrom(s, SkipSpaces(s, i), rest, capture)
                      ELSE NoMatch)
               [] tok.t = "quote" ->
                     (IF CharAt(s, i) \in {"'", "\""}
                      THEN MatchFrom(s, i + 1, rest, capture)
                      ELSE NoMatch)
               [] tok.t = "cap" ->
                     (IF CaptureEnd(s, i, tok.v) = 0 THEN NoMatch
                      ELSE MatchFrom(s, CaptureEnd(s, i, tok.v), rest,
                                     SubSeq(s, i, CaptureEnd(s, i, tok.v) - 1)))
               [] OTHER ->
                     (IF MatchFrom(s, i, <<Lit(tok.v), Ws1>> \o rest, capture).ok
                      THEN MatchFrom(s, i, <<Lit(tok.v), Ws1>> \o rest, capture)
                      ELSE MatchFrom(s, i, rest, capture))

\* The captures of the matches that start at the given positions, left to right.
RECURSIVE CapturesAt(_, _, _)
CapturesAt(s, pat, positions) ==
    IF positions = {} THEN <<>>
    ELSE LET i == CHOOSE i \in positions : \A j \in positions : i <= j
         IN  <<MatchFrom(s, i, pat, "").capture>> \o CapturesAt(s, pat, positions \ {i})

\* re.findall(pattern, s) for a pattern with one group.  Every pattern of the
\* Data Analyst starts with a literal that cannot occur inside its own match,
\* so the matches found from every start position never overlap.
FindAll(s, pat) ==
    CapturesAt(s, pat, { i \in 1..Len(s) : MatchFrom(s, i, pat, "").ok })

\* The first occurrence of old in s replaced by new (str.replace on a text
\* that holds old once).
Replace(s, old, new) ==
    LET found == { i \in 1..(Len(s) - Len(old) + 1) : SubSeq(s, i, i + Len(old) - 1) = old }
        at(i) == SubSeq(s, 1, i - 1) \o new \o SubSeq(s, i + Len(old), Len(s))
    IN  IF found = {} THEN s
        ELSE at(CHOOSE i \in found : \A j \in found : i <= j)

\* The elements of seq in seq's order.
Range(seq) == { seq[i] : i \in 1..Len(seq) }

\* Appending every value, also one the list already holds.
ExtendAll(seq, vs) == seq \o vs

\* for v in vs: if v not in seq: seq.append(v)
RECURSIVE ExtendNew(_, _)
ExtendNew(seq, vs) ==
    IF vs = <<>> THEN seq
    ELSE ExtendNew(IF Head(vs) \in Range(seq) THEN seq ELSE Append(seq, Head(vs)), Tail(vs))

RECURSIVE Flatten(_)
Flatten(seqs) == IF seqs = <<>> THEN <<>> ELSE Head(seqs) \o Flatten(Tail(seqs))

\* ------------------------------------------------------------------ capability

\* What an exception raised by a capability or a tool says (str(e)).
ExceptionText == "connection error"

\* One invocation of the reasoning capability: it raises, or returns a message.
LLMRaises == [raises |-> TRUE, content |-> ""]

LLMReturns(text) == [raises |-> FALSE, content |-> text]

\* ------------------------------------------------------------------ Business Analyst

\* str(e) of the AttributeError that None.lower() raises.
AttributeErrorText == "'NoneType' object has no attribute 'lower'"

\* Building the messages from conversation_history[-n:] raises inside the
\* method's try: len(content) of an assistant entry whose content is no text.
assistant_content_raises(conversation_history, n) ==
    \E i \in 1..Len(conversation_history) :
        /\ i > Len(conversation_history) - n
        /\ conversation_history[i].role = "assistant"
        /\ ~conversation_history[i].is_text

\* interpret_user_question: the capability's text wrapped in a result, or the
\* failure result when building the messages or the invocation raises.
interpret_user_question(user_question, conversation_history, llm) ==
    IF llm.raises \/ assistant_content_raises(conversation_history, 6)
    THEN [success |-> FALSE,
          interpretation |-> "",
          error |-> "Failed to interpret user question: " \o ExceptionText,
          original_question |-> user_question]
    ELSE [success |-> TRUE,
          interpretation |-> llm.content,
          error |-> "",
          original_question |-> user_question]

rejection_phrases ==
    { "no quiero más clarificaciones", "no quiero más preguntas",
      "no quiero clarificación", "sin clarificaciones", "sin preguntas",
      "dame una respuesta directa", "responde directamente", "ya te expliqué",
      "ya lo dije", "por favor responde", "no más preguntas", "no i want",
      "don't ask", "general", "datos", "métricas", "resultados", "información" }

include_all_words == { "todo", "all", "ambos", "both" }

\* The cap of questions[:3].
MaxClarifyingQuestions == 3

\* The window conversation_history[-3:] of the policy's history scan.
RecentWindow == 3

\* The assistant turns of the window that mention a clarification.
clarification_count(recent_exchanges) ==
    Cardinality({ i \in 1..Len(recent_exchanges) :
        /\ recent_exchanges[i].role = "assistant"
        /\ \/ Contains(lower(recent_exchanges[i].content), "clarification")
           \/ Contains(lower(recent_exchanges[i].content), "clarificación") })

\* A user turn of the window carries an "include everything" word.
user_included_all(recent_exchanges) ==
    \E i \in 1..Len(recent_exchanges) :
        /\ recent_exchanges[i].role = "user"
        /\ ContainsAny(lower(recent_exchanges[i].content), include_all_words)

\* parse_questions without the [:3] slice.
parse_questions_uncapped(content) ==
    LET lines    == SplitLines(content)
        stripped == [i \in 1..Len(lines) |-> strip(lines[i])]
    IN  SelectSeq(stripped, LAMBDA q : q # "")

\* The history scan raises: content.lower() on an entry of the window whose
\* content is no text, reached before a user turn returned from the scan.
scan_raises(recent_exchanges) ==
    \E i \in 1..Len(recent_exchanges) :
        /\ ~recent_exchanges[i].is_text
        /\ ~user_included_all(SubSeq(recent_exchanges, 1, i - 1))

\* The questions parsed from the capability's answer:
\* [q.strip() for q in content.split('\n') if q.strip()][:3]
parse_questions(content) ==
    LET lines    == SplitLines(content)
        stripped == [i \in 1..Len(lines) |-> strip(lines[i])]
    IN  Take(SelectSeq(stripped, LAMBDA q : q # ""), MaxClarifyingQuestions)

\* ask_clarifying_questions without the rejection test on the question: the
\* history scan and the capability decide alone.
ask_clarifying_questions_no_rejection_test(user_question, conversation_history, llm) ==
    LET scans == Len(conversation_history) >= RecentWindow
        recent_exchanges == LastN(conversation_history, RecentWindow)
    IN  IF scans /\ scan_raises(recent_exchanges)
        THEN [questions |-> <<>>, steps |-> <<"history">>, raises |-> TRUE]
        ELSE IF scans /\ ( \/ user_included_all(recent_exchanges)
                           \/ clarification_count(recent_exchanges) >= 2 )
        THEN [questions |-> <<>>, steps |-> <<"history">>, raises |-> FALSE]
        ELSE IF assistant_content_raises(conversation_history, 6)
        THEN [questions |-> <<>>, steps |-> IF scans THEN <<"history">> ELSE <<>>,
              raises |-> FALSE]
        ELSE [questions |->
                  IF llm.raises THEN <<>>
                  ELSE IF Contains(lower(llm.content), "no clarification needed") THEN <<>>
                  ELSE parse_questions(llm.content),
              steps |-> (IF scans THEN <<"history">> ELSE <<>>) \o <<"llm">>,
              raises |-> FALSE]

\* ask_clarifying_questions.  steps lists, in order, the parts of the method
\* that ran: the rejection test on the question, the scan of the history, the
\* invocation of the capability.  raises: the method raised (the scan of the
\* history is outside its try); building the messages or the invocation
\* raising inside the try yields no question.
ask_clarifying_questions(user_question, conversation_history, llm) ==
    LET user_question_lower == lower(user_question)
        scans == Len(conversation_history) >= RecentWindow
        recent_exchanges == LastN(conversation_history, RecentWindow)
    IN  IF ContainsAny(user_question_lower, rejection_phrases)
        THEN [questions |-> <<>>, steps |-> <<"rejection">>, raises |-> FALSE]
        ELSE IF scans /\ scan_raises(recent_exchanges)
        THEN [questions |-> <<>>, steps |-> <<"rejection", "history">>, raises |-> TRUE]
        ELSE IF scans /\ ( \/ user_included_all(recent_exchanges)
                           \/ clarification_count(recent_exchanges) >= 2 )
        THEN [questions |-> <<>>, steps |-> <<"rejection", "history">>, raises |-> FALSE]
        ELSE LET before == IF scans THEN <<"rejection", "history">> ELSE <<"rejection">>
             IN  IF assistant_content_raises(conversation_history, 6)
                 THEN [questions |-> <<>>, steps |-> before, raises |-> FALSE]
                 ELSE [questions |->
                          IF llm.raises THEN <<>>
                          ELSE IF Contains(lower(llm.content), "no clarification needed") THEN <<>>
                          ELSE parse_questions(llm.content),
                       steps |-> before \o <<"llm">>,
                       raises |-> FALSE]

detail_phrases ==
    { "más detalles", "más información", "explica", "explícame", "recomendaciones",
      "insights", "explain", "more details", "more information", "recommendations",
      "elaborate", "analyze" }

\* The verbosity switch of synthesize_results: a detail phrase in any user turn
\* of the history or in the current question.
user_wants_details(user_question, conversation_history) ==
    \/ \E i \in 1..Len(conversation_history) :
          /\ conversation_history[i].role = "user"
          /\ ContainsAny(lower(conversation_history[i].content), detail_phrases)
    \/ ContainsAny(lower(user_question), detail_phrases)

\* The synthesis_prompt synthesize_results chooses.
synthesis_prompt(user_question, conversation_history) ==
    IF user_wants_details(user_question, conversation_history) THEN "detailed" ELSE "concise"

\* The verbosity scan of synthesize_results raises, outside the method's try:
\* content.lower() on a user entry whose content is no text, reached before a
\* user turn with a detail phrase ended the scan.
details_scan_raises(conversation_history) ==
    \E i \in 1..Len(conversation_history) :
        /\ conversation_history[i].role = "user"
        /\ ~conversation_history[i].is_text
        /\ ~\E j \in 1..(i - 1) :
              /\ conversation_history[j].role = "user"
              /\ ContainsAny(lower(conversation_history[j].content), detail_phrases)

\* synthesize_results, past its verbosity scan: the capability's text as
\* business_response, or the failure result (with its apology text) when
\* building the messages or the invocation raises.
synthesize_results(user_question, technical_analysis, conversation_history, llm) ==
    IF llm.raises \/ assistant_content_raises(conversation_history, 4)
    THEN [success |-> FALSE,
          error |-> "Failed to synthesize results: " \o ExceptionText,
          business_response |-> "I apologize, but I encountered an error while analyzing the results. Please try your question again."]
    ELSE [success |-> TRUE,
          error |-> "",
          business_response |-> llm.content]

\* ------------------------------------------------------------------ texts

\* Questions a caller asks.
Questions ==
    { "Conversion rate Chile",
      "How are sales?",
      "Dame los datos de agosto",
      "Sin clarificaciones: ventas",
      "General performance",
      "No preguntes, ventas" }

\* Questions handed to analyze_request when the agent is called directly.
AnalystQuestions ==
    { "show me the full table",
      "Tráfico mobile de Brasil en agosto de 2025" }

\* Original questions of the contexts handed to the Parameter Extractor: the
\* questions above, and questions naming a 30-day month and a February.
ExtractorQuestions ==
    AnalystQuestions \cup { "Ventas de junio de 2025", "Sales in february 2024" }

\* The query text the capability puts into its sql_query calls during a run
\* of the workflow.
SampleQuery == "SELECT culture, traffic FROM amplitude.funnels_resumido LIMIT 5"

QueryChileAugust ==
    "SELECT traffic FROM amplitude.funnels_resumido WHERE culture = 'CL' AND date >= '2025-08-01' AND date <= '2025-08-31'"

QueryMobileJuly ==
    "SELECT traffic FROM amplitude.funnels_resumido WHERE device = 'mobile' AND traffic_type = 'Paid' AND date BETWEEN '2025-07-01' AND '2025-07-31'"

QueryBrasilSince ==
    "SELECT last_update FROM amplitude.funnels_resumido WHERE culture = 'BR' AND date > '2025-06-30'"

QueryOtherTable == "SELECT email FROM amplitude.users"

QueryDrop == "DROP TABLE amplitude.funnels_resumido"

QueryInsert == "INSERT INTO amplitude.funnels_resumido (traffic) VALUES (1)"

\* The query texts the capability writes when the agent is called directly.
Queries ==
    { QueryChileAugust, QueryMobileJuly, QueryBrasilSince, QueryOtherTable,
      QueryDrop, QueryInsert }

\* ------------------------------------------------------------------ Data Analyst

\* The names of DATABASE_TOOLS, the tools bound to the capability.
DATABASE_TOOLS == { "sql_query", "data_analysis", "get_schema_info" }

\* What the environment does at one tool.invoke.  For sql_query: the warehouse
\* returns rows, returns zero rows or fails ("error": no connection or a
\* failing statement), or invoke raises before the tool runs (arguments that
\* do not fit the tool's schema).  Another bound tool returns its document or
\* raises; a name that is no bound tool is never invoked.
ToolOutcomes(tool) ==
    IF tool = "sql_query" THEN { "rows", "zero_rows", "error", "raise" }
    ELSE IF tool \in DATABASE_TOOLS THEN { "ok", "raise" }
    ELSE { "none" }

\* The keywords SQLQueryTool._run refuses.
dangerous == { "drop", "delete", "truncate", "alter", "create" }

\* RedshiftConnection.execute_query: a text that is empty or does not start
\* with select raises ValueError before any statement is sent; otherwise the
\* statement goes to the warehouse.
execute_query(query, warehouse) ==
    LET q == strip(lower(query))
    IN  IF Len(q) >= 6 /\ SubSeq(q, 1, 6) = "select" THEN warehouse ELSE "not_select"

\* SQLQueryTool._run: the error document of the keyword filter ("rejected"),
\* the error document of an exception of execute_query ("not_select",
\* "error"), or the rows.
SQLQueryTool_run(query, warehouse) ==
    IF ContainsAny(strip(lower(query)), dangerous) THEN "rejected"
    ELSE execute_query(query, warehouse)

\* DataAnalystAgent.validate_query (no caller in analyze_request).
validate_query(query) ==
    LET query_lower == strip(lower(query))
    IN  /\ ~ContainsAny(query_lower, { "drop", "delete", "truncate", "alter",
                                       "create", "insert", "update" })
        /\ Contains(query_lower, "funnels_resumido")

\* The default query of the tool-call branch (whitespace runs of the source
\* text written as one blank).
forced_default_query ==
    "\n SELECT date, culture, device, traffic_type, traffic, payment_confirmation_loaded, (CAST(payment_confirmation_loaded AS DECIMAL(18,2)) * 100.0 / NULLIF(traffic, 0)) as conversion_rate FROM amplitude.funnels_resumido WHERE date BETWEEN CURRENT_DATE - INTERVAL '30 days' AND CURRENT_DATE LIMIT 5\n "

countries ==
    << <<"chile", "CL">>, <<"brasil", "BR">>, <<"peru", "PE">>, <<"paraguay", "PY">>,
       <<"argentina", "AR">>, <<"colombia", "CO">>, <<"ecuador", "EC">>,
       <<"uruguay", "UY">>, <<"estados unidos", "US">> >>

\* The default query of the branch without tool calls: the first country of
\* the question and its device narrow the WHERE clause.
default_query(business_question) ==
    LET query_lower == lower(business_question)
        base == "\n SELECT date, culture, device, traffic_type, traffic, payment_confirmation_loaded, (payment_confirmation_loaded * 100.0 / NULLIF(traffic, 0)) as conversion_rate FROM amplitude.funnels_resumido WHERE date BETWEEN CURRENT_DATE - INTERVAL '30 days' AND CURRENT_DATE LIMIT 5\n "
        found == { i \in 1..Len(countries) : Contains(query_lower, countries[i][1]) }
        with_culture ==
            IF found = {} THEN base
            ELSE LET i == CHOOSE i \in found : \A j \in found : i <= j
                 IN  Replace(base, "WHERE", "WHERE culture = '" \o countries[i][2] \o "' AND")
    IN  IF Contains(query_lower, "mobile") \/ Contains(query_lower, "móvil")
        THEN Replace(with_culture, "WHERE", "WHERE device = 'mobile' AND")
        ELSE IF Contains(query_lower, "desktop") \/ Contains(query_lower, "escritorio")
        THEN Replace(with_culture, "WHERE", "WHERE device = 'desktop' AND")
        ELSE with_culture

\* default_query for the questions of the model, computed once.
default_queries == [q \in Questions \cup AnalystQuestions |-> default_query(q)]

\* The query texts of the model.
QueryTexts ==
    Queries \cup { SampleQuery, forced_default_query }
            \cup { default_queries[q] : q \in DOMAIN default_queries }

\* SQLQueryTool._run for the query texts of the model, computed once.
sql_query_results ==
    [q \in QueryTexts |-> [w \in { "rows", "zero_rows", "error" } |-> SQLQueryTool_run(q, w)]]

\* tool.invoke(tool_args)
invoke(tool, args, outcome) ==
    IF outcome = "raise" THEN "raise"
    ELSE IF tool = "sql_query" THEN sql_query_results[args][outcome]
    ELSE outcome

\* The entries of debug_tool_results for the requested tool calls: a call of
\* an unknown tool leaves no entry, a raising tool leaves an error entry.
RECURSIVE requested_tool_results(_, _, _)
requested_tool_results(tool_calls, tool_args, tool_outcomes) ==
    IF tool_calls = <<>> THEN <<>>
    ELSE (IF Head(tool_calls) \in DATABASE_TOOLS
          THEN << [tool |-> Head(tool_calls),
                   args |-> Head(tool_args),
                   outcome |-> invoke(Head(tool_calls), Head(tool_args), Head(tool_outcomes)),
                   forced |-> FALSE] >>
          ELSE <<>>)
         \o requested_tool_results(Tail(tool_calls), Tail(tool_args), Tail(tool_outcomes))

\* ---- the Parameter Extractor

date_patterns ==
    << <<Lit("date"), Ws0, Lit(">="), Ws0, Quote, Cap("date"), Quote>>,
       <<Lit("date"), Ws0, Lit("<="), Ws0, Quote, Cap("date"), Quote>>,
       <<Lit("date"), Ws0, Lit("="), Ws0, Quote, Cap("date"), Quote>>,
       <<Lit("date"), Ws0, Lit("BETWEEN"), Ws0, Quote, Cap("date"), Quote>>,
       <<Lit("TO_DATE("), Quote, Cap("date"), Quote>> >>

culture_pattern == <<Lit("culture"), Ws0, Lit("="), Ws0, Quote, Cap("upper2"), Quote>>

device_pattern == <<Lit("device"), Ws0, Lit("="), Ws0, Quote, Cap("word"), Quote>>

traffic_type_pattern == <<Lit("traffic_type"), Ws0, Lit("="), Ws0, Quote, Cap("word"), Quote>>

metrics_of_interest == << "conversion_rate", "traffic", "payment_confirmation_loaded" >>

months ==
    << <<"enero", "01">>, <<"febrero", "02">>, <<"marzo", "03">>, <<"abril", "04">>,
       <<"mayo", "05">>, <<"junio", "06">>, <<"julio", "07">>, <<"agosto", "08">>,
       <<"septiembre", "09">>, <<"octubre", "10">>, <<"noviembre", "11">>,
       <<"diciembre", "12">>,
       <<"january", "01">>, <<"february", "02">>, <<"march", "03">>, <<"april", "04">>,
       <<"may", "05">>, <<"june", "06">>, <<"july", "07">>, <<"august", "08">>,
       <<"september", "09">>, <<"october", "10">>, <<"november", "11">>,
       <<"december", "12">> >>

\* The two year_patterns of a month.
year_patterns(month) ==
    << <<Lit(month), Ws1, Opt("de"), Cap("year")>>,
       <<Lit(month), Ws1, Cap("year")>> >>

\* The start and end dates the month loop appends for the question.
month_dates(question_lower) ==
    Flatten([m \in 1..Len(months) |->
        Flatten([k \in 1..2 |->
            LET year_matches == FindAll(question_lower, year_patterns(months[m][1])[k])
            IN  IF year_matches = <<>> THEN <<>>
                ELSE << year_matches[1] \o "-" \o months[m][2] \o "-01",
                        year_matches[1] \o "-" \o months[m][2] \o "-31" >>])])

\* The queries the extractor reads: the sql_query entries with a query text
\* under question_interpretation.technical_details.debug_info.tool_results.
last_executed_queries(context) ==
    LET entries == SelectSeq(context.tool_results,
                             LAMBDA r : r.tool = "sql_query" /\ r.args # "")
    IN  [i \in 1..Len(entries) |-> entries[i].args]

\* What the loop over last_executed_queries takes from one query text.
query_filters(query) ==
    [dates |-> Flatten([p \in 1..Len(date_patterns) |-> FindAll(query, date_patterns[p])]),
     cultures |-> IF Contains(query, "culture") THEN FindAll(query, culture_pattern) ELSE <<>>,
     devices |-> IF Contains(query, "device") THEN FindAll(query, device_pattern) ELSE <<>>,
     traffic_types |-> IF Contains(query, "traffic_type")
                       THEN FindAll(query, traffic_type_pattern) ELSE <<>>,
     metrics_found |-> SelectSeq(metrics_of_interest, LAMBDA m : Contains(lower(query), m))]

\* query_filters for the query texts of the model, computed once.
query_filters_of == [q \in QueryTexts |-> query_filters(q)]

\* What the extractor takes from the original question: the codes of the
\* countries it names, its devices, the date range of its months.
question_hints(original_question) ==
    LET question_lower == lower(original_question)
        found_countries == SelectSeq(countries, LAMBDA c : Contains(question_lower, c[1]))
        found_devices == SelectSeq(<<"desktop", "mobile", "móvil">>,
                                   LAMBDA d : Contains(question_lower, d))
    IN  [cultures |-> [i \in 1..Len(found_countries) |-> found_countries[i][2]],
         devices |-> [i \in 1..Len(found_devices) |->
                        IF found_devices[i] = "móvil" THEN "mobile" ELSE found_devices[i]],
         dates |-> IF original_question = "" THEN <<>> ELSE month_dates(question_lower)]

\* question_hints for the questions of the model, computed once.
question_hints_of ==
    [q \in Questions \cup ExtractorQuestions \cup {""} |-> question_hints(q)]

\* The dictionary the extractor returns, with the keys it holds.
Params(keys, dates, cultures, devices, traffic_types, queries, metrics_found) ==
    [keys |-> keys, dates |-> dates, cultures |-> cultures, devices |-> devices,
     traffic_types |-> traffic_types, last_executed_queries |-> queries,
     metrics_of_interest |-> metrics_found]

ParamKeys ==
    { "dates", "cultures", "devices", "traffic_types", "last_executed_queries",
      "metrics_of_interest" }

\* The extractor, were it to read the culture kept in conversation_memory.
_extract_query_params_reading_memory(self, context) ==
    IF ~context.provided
    THEN Params(ParamKeys, <<>>, <<>>, <<>>, <<>>, <<>>, <<>>)
    ELSE
    LET queries == last_executed_queries(context)
        collect(from_queries, from_question) ==
          LET dates == ExtendNew(<<>>, Flatten([q \in 1..Len(queries) |-> from_queries[q].dates])
                                     \o from_question.dates)
            cultures == ExtendNew(<<>>, Flatten([q \in 1..Len(queries) |-> from_queries[q].cultures])
                                        \o from_question.cultures
                                        \o (IF self.culture = "" THEN <<>> ELSE << self.culture >>))
            devices == ExtendNew(<<>>, Flatten([q \in 1..Len(queries) |-> from_queries[q].devices])
                                       \o from_question.devices)
            traffic_types ==
                ExtendNew(<<>>, Flatten([q \in 1..Len(queries) |-> from_queries[q].traffic_types]))
            metrics_found ==
                ExtendNew(<<>>, Flatten([q \in 1..Len(queries) |-> from_queries[q].metrics_found]))
            keys == { k \in ParamKeys :
                        CASE k = "dates" -> dates # <<>>
                          [] k = "cultures" -> cultures # <<>>
                          [] k = "devices" -> devices # <<>>
                          [] k = "traffic_types" -> traffic_types # <<>>
                          [] k = "last_executed_queries" -> queries # <<>>
                          [] OTHER -> metrics_found # <<>> }
          IN  Params(keys, dates, cultures, devices, traffic_types, queries, metrics_found)
    IN  collect([q \in 1..Len(queries) |-> query_filters_of[queries[q]]],
                question_hints_of[context.original_question])

\* _extract_query_params_from_context.  self is the agent (its
\* conversation_memory); context is the dictionary handed to analyze_request:
\* provided (a non-empty dictionary), the tool results under
\* question_interpretation.technical_details.debug_info, original_question.
\* Each list keeps the first occurrence of a value.
_extract_query_params_from_context(self, context) ==
    IF ~context.provided
    THEN Params(ParamKeys, <<>>, <<>>, <<>>, <<>>, <<>>, <<>>)
    ELSE
    LET queries == last_executed_queries(context)
        collect(from_queries, from_question) ==
          LET dates == ExtendNew(<<>>, Flatten([q \in 1..Len(queries) |-> from_queries[q].dates])
                                     \o from_question.dates)
            cultures == ExtendNew(<<>>, Flatten([q \in 1..Len(queries) |-> from_queries[q].cultures])
                                        \o from_question.cultures)
            devices == ExtendNew(<<>>, Flatten([q \in 1..Len(queries) |-> from_queries[q].devices])
                                       \o from_question.devices)
            traffic_types ==
                ExtendNew(<<>>, Flatten([q \in 1..Len(queries) |-> from_queries[q].traffic_types]))
            metrics_found ==
                ExtendNew(<<>>, Flatten([q \in 1..Len(queries) |-> from_queries[q].metrics_found]))
            keys == { k \in ParamKeys :
                        CASE k = "dates" -> dates # <<>>
                          [] k = "cultures" -> cultures # <<>>
                          [] k = "devices" -> devices # <<>>
                          [] k = "traffic_types" -> traffic_types # <<>>
                          [] k = "last_executed_queries" -> queries # <<>>
                          [] OTHER -> metrics_found # <<>> }
          IN  Params(keys, dates, cultures, devices, traffic_types, queries, metrics_found)
    IN  collect([q \in 1..Len(queries) |-> query_filters_of[queries[q]]],
                question_hints_of[context.original_question])

\* ---- analyze_request

\* An empty dictionary of query parameters.
NoParams == [culture |-> "", dates |-> <<>>, device |-> ""]

\* The matches analyze_request takes from a query text: culture, the >= and
\* <= dates, device.
query_matches(query) ==
    [culture_matches |-> FindAll(query, culture_pattern),
     dates |-> FindAll(query, date_patterns[1]) \o FindAll(query, date_patterns[2]),
     device_matches |-> FindAll(query, device_pattern)]

\* query_matches for the query texts of the model, computed once.
query_matches_of == [q \in QueryTexts |-> query_matches(q)]

\* extracted_params: the culture, the >= and <= dates and the device of the
\* sql_query entries of debug_tool_results; a later query that has a kind
\* replaces the value of an earlier one.
RECURSIVE extracted_params(_, _)
extracted_params(tool_results, params) ==
    IF tool_results = <<>> THEN params
    ELSE LET result == Head(tool_results)
             with(matches) ==
                 [culture |-> IF matches.culture_matches # <<>>
                              THEN matches.culture_matches[1] ELSE params.culture,
                  dates |-> IF matches.dates # <<>> THEN matches.dates ELSE params.dates,
                  device |-> IF matches.device_matches # <<>>
                             THEN matches.device_matches[1] ELSE params.device]
         IN  extracted_params(Tail(tool_results),
                              IF result.tool = "sql_query" /\ result.args # ""
                              THEN with(query_matches_of[result.args])
                              ELSE params)

\* dict.update(extracted_params)
update(memory, params) ==
    [culture |-> IF params.culture # "" THEN params.culture ELSE memory.culture,
     dates |-> IF params.dates # <<>> THEN params.dates ELSE memory.dates,
     device |-> IF params.device # "" THEN params.device ELSE memory.device]

\* The result analyze_request returns when it fails outright (its outer except).
analysis_failure ==
    [success |-> FALSE,
     error |-> "Data analysis failed: " \o ExceptionText,
     analysis |-> "Technical analysis could not be completed due to an error.",
     has_technical_details |-> FALSE,
     tools_used |-> <<>>,
     query_executed |-> FALSE,
     executed_sql |-> "",
     query_parameters |-> NoParams,
     tool_results |-> <<>>]

\* The entry of the forced default query of the tool-call branch: none when a
\* sql_query entry exists or when the forced invocation raises.
forced_tool_results(requested, default_outcome) ==
    IF (\E i \in 1..Len(requested) : requested[i].tool = "sql_query") \/ default_outcome = "raise"
    THEN <<>>
    ELSE << [tool |-> "sql_query",
             args |-> forced_default_query,
             outcome |-> invoke("sql_query", forced_default_query, default_outcome),
             forced |-> TRUE] >>

\* analyze_with_tool_calls without the try/except around tool.invoke: the
\* raise of a requested tool reaches the outer except.
analyze_with_tool_calls_tool_raise_fatal(cap) ==
    LET after(requested, forced) ==
            LET sql_query_executed ==
                    \E i \in 1..Len(requested) : requested[i].tool = "sql_query"
                executed_sql ==
                    IF sql_query_executed
                    THEN SelectSeq(requested, LAMBDA r : r.tool = "sql_query")[1].args
                    ELSE IF forced # <<>> THEN forced_default_query ELSE ""
                note == IF ~sql_query_executed /\ executed_sql # ""
                        THEN "\n\nNOTE: I've executed a query against the amplitude.funnels_resumido table to verify data availability."
                        ELSE ""
            IN  IF cap.final.raises \/ \E i \in 1..Len(requested) : requested[i].outcome = "raise"
            THEN analysis_failure
                ELSE [success |-> TRUE,
                      error |-> "",
                      analysis |-> cap.final.content \o note,
                      has_technical_details |-> TRUE,
                      tools_used |-> cap.tool_calls \o
                                     (IF sql_query_executed THEN <<>> ELSE <<"sql_query">>),
                      query_executed |-> TRUE,
                      executed_sql |-> executed_sql,
                      query_parameters |-> extracted_params(requested \o forced, NoParams),
                      tool_results |-> requested \o forced]
        loop(requested) == after(requested, forced_tool_results(requested, cap.default_outcome))
    IN  loop(requested_tool_results(cap.tool_calls, cap.tool_args, cap.tool_outcomes))

\* analyze_request, the branch in which the capability requested tools.
analyze_with_tool_calls(cap) ==
    LET after(requested, forced) ==
            LET sql_query_executed ==
                    \E i \in 1..Len(requested) : requested[i].tool = "sql_query"
                executed_sql ==
                    IF sql_query_executed
                    THEN SelectSeq(requested, LAMBDA r : r.tool = "sql_query")[1].args
                    ELSE IF forced # <<>> THEN forced_default_query ELSE ""
                note == IF ~sql_query_executed /\ executed_sql # ""
                        THEN "\n\nNOTE: I've executed a query against the amplitude.funnels_resumido table to verify data availability."
                        ELSE ""
            IN  IF cap.final.raises THEN analysis_failure
                ELSE [success |-> TRUE,
                      error |-> "",
                      analysis |-> cap.final.content \o note,
                      has_technical_details |-> TRUE,
                      tools_used |-> cap.tool_calls \o
                                     (IF sql_query_executed THEN <<>> ELSE <<"sql_query">>),
                      query_executed |-> TRUE,
                      executed_sql |-> executed_sql,
                      query_parameters |-> extracted_params(requested \o forced, NoParams),
                      tool_results |-> requested \o forced]
        loop(requested) == after(requested, forced_tool_results(requested, cap.default_outcome))
    IN  loop(requested_tool_results(cap.tool_calls, cap.tool_args, cap.tool_outcomes))

\* analyze_request, the branch in which the capability requested no tool: the
\* default query is forced; when it or the follow-up invocation raises, the
\* inner except falls through to the "attempted" result.
analyze_without_tool_calls(business_question, cap) ==
    LET with(query) ==
            IF cap.default_outcome = "raise" \/ cap.final.raises
            THEN [success |-> TRUE,
                  error |-> "",
                  analysis |-> cap.first.content \o
                               "\n\nNote: I attempted to query the database but encountered an error.",
                  has_technical_details |-> TRUE,
                  tools_used |-> <<>>,
                  query_executed |-> FALSE,
                  executed_sql |-> "",
                  query_parameters |-> NoParams,
                  tool_results |-> <<>>]
            ELSE [success |-> TRUE,
                  error |-> "",
                  analysis |-> cap.final.content \o
                               (IF Contains(lower(cap.final.content), "no data") THEN ""
                                ELSE "\n\nNOTE: I've executed a query against the amplitude.funnels_resumido table to provide this analysis."),
                  has_technical_details |-> TRUE,
                  tools_used |-> <<"sql_query">>,
                  query_executed |-> TRUE,
                  executed_sql |-> query,
                  query_parameters |-> NoParams,
                  tool_results |-> << [tool |-> "sql_query",
                                       args |-> query,
                                       outcome |-> invoke("sql_query", query, cap.default_outcome),
                                       forced |-> TRUE] >>]
    IN  with(default_queries[business_question])

\* analyze_request.  cap holds what the capability and the tools do during the
\* call: first (the initial invocation), tool_calls and tool_args (the tools
\* it requests and the query text of each), tool_outcomes (what happens at
\* each requested tool), default_outcome (what happens at the forced default
\* query) and final (the follow-up invocation).  self is the agent's
\* conversation_memory: the result of the tool-call branch holds it, as updated
\* with the parameters of this call, under debug_info.conversation_memory (a
\* list of one value; the other results have no such key).
analyze_request(self, business_question, context, cap) ==
    IF cap.first.raises THEN analysis_failure
    ELSE IF cap.tool_calls # <<>>
    THEN LET returned(res) ==
                 IF res.success
                 THEN [conversation_memory |-> << update(self, res.query_parameters) >>] @@ res
                 ELSE res
         IN  returned(analyze_with_tool_calls(cap))
    ELSE analyze_without_tool_calls(business_question, cap)

\* conversation_memory after analyze_request: the tool-call branch, when it
\* reaches its return, stores the parameters of the queries it ran.
memory_after(memory, cap) ==
    IF cap.first.raises \/ cap.tool_calls = <<>> \/ cap.final.raises THEN memory
    ELSE update(memory, analyze_with_tool_calls(cap).query_parameters)

\* The query texts analyze_request sends to the warehouse, in order: the
\* texts of the requested and of the forced sql_query invocations that pass
\* the keyword filter of SQLQueryTool._run and the select test of execute_query.
dispatched_queries(business_question, cap) ==
    LET sent(entries) ==
            LET kept == SelectSeq(entries, LAMBDA r :
                            r.tool = "sql_query" /\ r.outcome \in { "rows", "zero_rows", "error" })
            IN  [i \in 1..Len(kept) |-> kept[i].args]
        loop(requested) ==
            sent(requested \o forced_tool_results(requested, cap.default_outcome))
        default(query) ==
            sent(<< [tool |-> "sql_query", args |-> query,
                     outcome |-> invoke("sql_query", query, cap.default_outcome)] >>)
    IN  IF cap.first.raises THEN <<>>
        ELSE IF cap.tool_calls # <<>>
        THEN loop(requested_tool_results(cap.tool_calls, cap.tool_args, cap.tool_outcomes))
        ELSE IF cap.default_outcome = "raise" THEN <<>>
        ELSE default(default_queries[business_question])

\* tool_invocations without the forced default query of the tool-call branch.
tool_invocations_requested_only(cap) ==
    IF cap.first.raises THEN <<>>
    ELSE IF cap.tool_calls # <<>>
    THEN LET tools(requested) == [i \in 1..Len(requested) |-> requested[i].tool]
         IN  tools(requested_tool_results(cap.tool_calls, cap.tool_args, cap.tool_outcomes))
    ELSE <<"sql_query">>

\* The tools analyze_request invokes, in order (every tool.invoke and
\* sql_tool.invoke it reaches, whether the call returns or raises).
tool_invocations(cap) ==
    IF cap.first.raises THEN <<>>
    ELSE IF cap.tool_calls # <<>>
    THEN LET tools(requested) ==
                 [i \in 1..Len(requested) |-> requested[i].tool]
                 \o (IF \E i \in 1..Len(requested) : requested[i].tool = "sql_query"
                     THEN <<>> ELSE <<"sql_query">>)
         IN  tools(requested_tool_results(cap.tool_calls, cap.tool_args, cap.tool_outcomes))
    ELSE <<"sql_query">>

\* The invocations of the capability analyze_request makes, in order, as
\* "ok" or "raise": the initial one, and the follow-up one when it is reached.
llm_invocations(cap) ==
    IF cap.first.raises THEN <<"raise">>
    ELSE IF cap.tool_calls = <<>> /\ cap.default_outcome = "raise" THEN <<"ok">>
    ELSE <<"ok", IF cap.final.raises THEN "raise" ELSE "ok">>

\* The role "tool" messages the loop over response.tool_calls appends: one per
\* requested bound tool, the tool's output or the error message of its raise.
RECURSIVE tool_messages(_, _, _, _)
tool_messages(tool_calls, tool_args, tool_outcomes, id) ==
    IF tool_calls = <<>> THEN <<>>
    ELSE (IF Head(tool_calls) \in DATABASE_TOOLS
          THEN << [tool_call_id |-> id,
                   content |-> IF Head(tool_outcomes) = "raise"
                               THEN "Tool execution failed: " \o ExceptionText
                               ELSE invoke(Head(tool_calls), Head(tool_args), Head(tool_outcomes))] >>
          ELSE <<>>)
         \o tool_messages(Tail(tool_calls), Tail(tool_args), Tail(tool_outcomes), id + 1)

\* ------------------------------------------------------------------ workflow state

VARIABLES
    pc,             \* where the run is: "idle", a node of the graph, "END", "returned"
    state,          \* the WorkflowState of the current run
    result,         \* the dictionary run returned
    trace,          \* the nodes executed in this run, with error_occurred before each
    policy_call,    \* what ask_clarifying_questions did in this run
    analysis_call,  \* what analyze_request did in this run: the tools the
                    \* capability requested, the tools and the capability
                    \* invocations it made, the tool messages it appended
    conversation_memory,  \* DataAnalystAgent.conversation_memory: one dictionary
                    \* per agent, kept from one analyze_request to the next
    extraction,     \* the last call of _extract_query_params_from_context:
                    \* its context and the parameters it returned
    thread          \* the caller's record of a conversation thread: question,
                    \* response and queries sent to the warehouse of each run

vars ==
    <<pc, state, result, trace, policy_call, analysis_call, conversation_memory,
      extraction, thread>>

\* An empty dictionary in a WorkflowState field that holds an agent's result.
EmptyDict ==
    [empty |-> TRUE, success |-> FALSE, error |-> "", interpretation |-> "",
     original_question |-> "", business_response |-> "", analysis |-> "",
     has_technical_details |-> FALSE, tools_used |-> <<>>,
     query_executed |-> FALSE, executed_sql |-> "",
     query_parameters |-> NoParams, tool_results |-> <<>>,
     conversation_memory |-> <<>>]

\* An agent's result stored in a WorkflowState field.
Dict(fields) == fields @@ [EmptyDict EXCEPT !.empty = FALSE]

\* The initial_state of run.
initial_state(user_question, conversation_history) ==
    [user_question |-> user_question,
     conversation_history |-> conversation_history,
     question_interpretation |-> EmptyDict,
     clarifying_questions |-> <<>>,
     business_synthesis |-> EmptyDict,
     technical_analysis |-> EmptyDict,
     needs_clarification |-> FALSE,
     analysis_complete |-> FALSE,
     error_occurred |-> FALSE,
     error_message |-> "",
     final_response |-> ""]

\* ------------------------------------------------------------------ nodes

\* _interpret_question: interpretation, then the clarification policy.
_interpret_question(st, o) ==
    LET res == interpret_user_question(st.user_question, st.conversation_history, o.interpret)
        policy == ask_clarifying_questions(st.user_question, st.conversation_history, o.clarify)
    IN  IF res.success /\ policy.raises
        THEN [st EXCEPT !.question_interpretation = Dict(res),
                        !.error_occurred = TRUE,
                        !.error_message = "Error in question interpretation: " \o AttributeErrorText]
        ELSE IF res.success
        THEN [st EXCEPT !.question_interpretation = Dict(res),
                        !.clarifying_questions = policy.questions,
                        !.needs_clarification = Len(policy.questions) > 0]
        ELSE [st EXCEPT !.error_occurred = TRUE,
                        !.error_message = res.error]

direct_answer_phrases ==
    { "no quiero", "sin clarificaciones", "respuesta directa", "responde ya",
      "dame los datos", "no preguntes", "general" }

\* The text _check_clarification builds from the questions:
\* "To answer accurately:" and one numbered line per question.
RECURSIVE clarification_text(_, _)
clarification_text(questions, i) ==
    IF i > Len(questions) THEN ""
    ELSE "\n" \o IntToStr(i) \o ". " \o questions[i] \o clarification_text(questions, i + 1)

\* _check_clarification
_check_clarification(st) ==
    LET questions == st.clarifying_questions
        user_question == lower(st.user_question)
        force_direct_answer == ContainsAny(user_question, direct_answer_phrases)
    IN  IF force_direct_answer \/ questions = <<>>
        THEN [st EXCEPT !.needs_clarification = FALSE,
                        !.final_response = "Analizando su consulta..."]
        ELSE [st EXCEPT !.final_response =
                            "To answer accurately:" \o clarification_text(questions, 1)]

\* The context _perform_technical_analysis hands to analyze_request:
\* state["question_interpretation"], the dictionary interpret_user_question
\* returned (success, interpretation, original_question).  It holds no
\* "question_interpretation" key, hence no prior tool results.
analysis_context(st) ==
    [provided |-> ~st.question_interpretation.empty,
     tool_results |-> <<>>,
     original_question |-> st.question_interpretation.original_question]

\* _perform_technical_analysis, were it to take a query without rows for a
\* failed analysis.
_perform_technical_analysis_zero_rows_fatal(self, st, o) ==
    LET store(res) ==
            IF res.success /\ \A i \in 1..Len(res.tool_results) :
                                  res.tool_results[i].outcome # "zero_rows"
            THEN [st EXCEPT !.technical_analysis = Dict(res),
                            !.analysis_complete = TRUE]
            ELSE [st EXCEPT !.error_occurred = TRUE,
                            !.error_message = "Query returned no rows"]
    IN  store(analyze_request(self, st.user_question, st.question_interpretation, o.analysis))

\* _perform_technical_analysis, given what analyze_request returned.  self is
\* the conversation_memory of the workflow's Data Analyst agent.
_perform_technical_analysis(self, st, o) ==
    LET store(res) ==
            IF res.success
            THEN [st EXCEPT !.technical_analysis = Dict(res),
                            !.analysis_complete = TRUE]
            ELSE [st EXCEPT !.error_occurred = TRUE,
                            !.error_message = res.error]
    IN  store(analyze_request(self, st.user_question, st.question_interpretation, o.analysis))

\* _synthesize_business_results
_synthesize_business_results(st, o) ==
    LET res == synthesize_results(st.user_question, st.technical_analysis.analysis,
                                  st.conversation_history, o.synthesis)
    IN  IF details_scan_raises(st.conversation_history)
        THEN [st EXCEPT !.error_occurred = TRUE,
                        !.error_message = "Error in result synthesis: " \o AttributeErrorText]
        ELSE IF res.success
        THEN [st EXCEPT !.business_synthesis = Dict(res),
                        !.final_response = res.business_response]
        ELSE [st EXCEPT !.error_occurred = TRUE,
                        !.error_message = res.error]

\* _handle_error, were it to discard the interpretation of the failed run.
_handle_error_clearing_interpretation(st) ==
    [st EXCEPT !.question_interpretation = EmptyDict,
               !.final_response =
        "Error: " \o st.error_message \o
        ". Please try rephrasing your question or be more specific about time periods, markets, or device types."]

\* _handle_error
_handle_error(st) ==
    [st EXCEPT !.final_response =
        "Error: " \o st.error_message \o
        ". Please try rephrasing your question or be more specific about time periods, markets, or device types."]

\* ------------------------------------------------------------------ routing

direct_answer_indicators ==
    { "no quiero", "respuesta directa", "dame", "necesito", "ahora", "ya",
      "por favor", "general", "without", "directly", "datos", "métricas",
      "resultados", "información", "tasa", "porcentaje", "conversión",
      "evolución", "tendencia", "quiero saber", "conocer" }

metrics ==
    { "conversión", "conversion", "tráfico", "traffic", "visitas", "visits", "rendimiento" }

dimensions ==
    { "chile", "brasil", "argentina", "colombia", "peru", "mobile", "desktop", "móvil" }

\* str(entry) of a history entry {"role": ..., "content": ...}
EntryStr(entry) == "{'role': '" \o entry.role \o "', 'content': '" \o entry.content \o "'}"

\* _should_ask_clarification, were force_direct_answer to start False and
\* stay so: the route follows needs_clarification.
_should_ask_clarification_not_forcing(st) ==
    IF st.error_occurred THEN [route |-> "error", view |-> st]
    ELSE IF st.needs_clarification THEN [route |-> "clarify", view |-> st]
    ELSE [route |-> "analyze", view |-> st]

\* _should_ask_clarification without its first test of error_occurred.
_should_ask_clarification_no_error_test(st) ==
    [route |-> "analyze", view |-> [st EXCEPT !.needs_clarification = FALSE]]

\* _should_ask_clarification.  force_direct_answer starts True and every later
\* assignment sets it to True again.  The function runs as a conditional edge:
\* the graph hands it a snapshot of the state and uses only the returned route,
\* so its assignment to needs_clarification stays in the snapshot (view) and
\* never reaches the WorkflowState.
_should_ask_clarification(st) ==
    LET user_question == lower(st.user_question)
        force_direct_answer ==
            \/ TRUE
            \/ st.clarifying_questions = <<>>
            \/ ContainsAny(user_question, direct_answer_indicators)
            \/ ContainsAny(user_question, metrics) /\ ContainsAny(user_question, dimensions)
            \/ \E i \in 1..Len(st.conversation_history) :
                   Contains(lower(EntryStr(st.conversation_history[i])), "clarific")
    IN  IF st.error_occurred THEN [route |-> "error", view |-> st]
        ELSE IF force_direct_answer
        THEN [route |-> "analyze", view |-> [st EXCEPT !.needs_clarification = FALSE]]
        ELSE IF st.needs_clarification THEN [route |-> "clarify", view |-> st]
        ELSE [route |-> "analyze", view |-> st]

\* _check_analysis_success with the test of analysis_complete inverted.
_check_analysis_success_inverted(st) ==
    IF st.error_occurred /\ st.analysis_complete THEN "error" ELSE "synthesize"

\* _check_analysis_success
_check_analysis_success(st) ==
    IF st.error_occurred \/ ~st.analysis_complete THEN "error" ELSE "synthesize"

\* The edges of _create_workflow, were handle_error to lead back to
\* interpret_question (a retry of the run) instead of END.
NextNode_error_then_retry(node, st) ==
    CASE node = "interpret_question" ->
            ( LET route == _should_ask_clarification(st).route
              IN  IF route = "clarify" THEN "check_clarification"
                  ELSE IF route = "analyze" THEN "perform_analysis"
                  ELSE "handle_error" )
      [] node = "check_clarification" -> "END"
      [] node = "perform_analysis" ->
            ( IF _check_analysis_success(st) = "synthesize"
              THEN "synthesize_results" ELSE "handle_error" )
      [] node = "synthesize_results" -> "END"
      [] node = "handle_error" -> "interpret_question"

\* The edges of _create_workflow, were handle_error to lead on to
\* synthesize_results instead of END.
NextNode_error_then_synthesis(node, st) ==
    CASE node = "interpret_question" ->
            ( LET route == _should_ask_clarification(st).route
              IN  IF route = "clarify" THEN "check_clarification"
                  ELSE IF route = "analyze" THEN "perform_analysis"
                  ELSE "handle_error" )
      [] node = "check_clarification" -> "END"
      [] node = "perform_analysis" ->
            ( IF _check_analysis_success(st) = "synthesize"
              THEN "synthesize_results" ELSE "handle_error" )
      [] node = "synthesize_results" -> "END"
      [] node = "handle_error" -> "synthesize_results"

\* The edges of _create_workflow: the node that follows `node` once it has
\* left the state st.
NextNode(node, st) ==
    CASE node = "interpret_question" ->
            ( LET route == _should_ask_clarification(st).route
              IN  IF route = "clarify" THEN "check_clarification"
                  ELSE IF route = "analyze" THEN "perform_analysis"
                  ELSE "handle_error" )
      [] node = "check_clarification" -> "END"
      [] node = "perform_analysis" ->
            ( IF _check_analysis_success(st) = "synthesize"
              THEN "synthesize_results" ELSE "handle_error" )
      [] node = "synthesize_results" -> "END"
      [] node = "handle_error" -> "END"

\* The function _create_workflow registers for each node.
\* The nodes, were the assignment of the conditional edge after
\* interpret_question to reach the WorkflowState.
RunNode_edge_write_kept(self, node, st, o) ==
    CASE node = "interpret_question" ->
            _should_ask_clarification(_interpret_question(st, o)).view
      [] node = "check_clarification" -> _check_clarification(st)
      [] node = "perform_analysis" -> _perform_technical_analysis(self, st, o)
      [] node = "synthesize_results" -> _synthesize_business_results(st, o)
      [] node = "handle_error" -> _handle_error(st)

RunNode(self, node, st, o) ==
    CASE node = "interpret_question" -> _interpret_question(st, o)
      [] node = "check_clarification" -> _check_clarification(st)
      [] node = "perform_analysis" -> _perform_technical_analysis(self, st, o)
      [] node = "synthesize_results" -> _synthesize_business_results(st, o)
      [] node = "handle_error" -> _handle_error(st)

Nodes ==
    { "interpret_question", "check_clarification", "perform_analysis",
      "synthesize_results", "handle_error" }

\* ------------------------------------------------------------------ inputs

\* An entry of conversation_history.  is_text: its content is a str.
Turn(role, content) == [role |-> role, content |-> content, is_text |-> TRUE]

\* An entry whose content is no str (None): nothing enforces the type hint
\* List[Dict[str, str]] of run.
NonTextTurn(role) == [role |-> role, content |-> "", is_text |-> FALSE]

\* Sample conversations; a run's history is the last n <= MaxHistory turns of one.
Conversations ==
    { << Turn("user", "How are sales?"),
         Turn("assistant", "To answer accurately:\n1. - Which period?"),
         Turn("user", "No más preguntas") >>,
      << Turn("user", "ventas?"),
         Turn("assistant", "I need a clarification: which period?"),
         Turn("user", "agosto"),
         Turn("assistant", "One more clarification: which market?") >>,
      << Turn("user", "and mobile?"),
         Turn("assistant", "Desktop or mobile?"),
         Turn("user", "both") >>,
      << Turn("assistant", "Which period?"),
         Turn("user", "no quiero más clarificaciones") >>,
      << Turn("user", "How are sales?"),
         Turn("assistant", "Sales rose in August."),
         NonTextTurn("user") >> }

Histories == { LastN(c, n) : c \in Conversations, n \in 0..MaxHistory }

\* What the capability may answer to the interpretation prompt.
InterpretAnswers == { LLMRaises, LLMReturns("The user asks about funnel conversion.") }

\* What the capability may answer to the clarification prompt.
ClarifyAnswers ==
    { LLMRaises,
      LLMReturns("No clarification needed."),
      LLMReturns("1. - Which period?"),
      LLMReturns("1. - Which period?\n\n 2. - Which market?\n3. - Which device?\n4. - Which source?") }

\* What the capability may answer to the synthesis prompt.
SynthesisAnswers ==
    { LLMRaises,
      LLMReturns("Conversion in Chile was 3.2%."),
      LLMReturns("No data available for August 2025.") }

\* Sample tool requests; a response requests the first n <= MaxToolCalls of one.
ToolRequests ==
    { << "sql_query", "data_analysis", "sql_query" >>,
      << "get_schema_info", "sql_query", "get_schema_info" >>,
      << "get_schema_info", "unknown_tool", "data_analysis" >>,
      << "unknown_tool", "sql_query", "sql_query" >>,
      << "sql_query", "sql_query", "data_analysis" >> }

ToolCalls == { Take(r, n) : r \in ToolRequests, n \in 0..MaxToolCalls }

\* What the requested tools may do, one outcome per call.
ToolOutcomeSeqs(calls) ==
    { os \in [1..Len(calls) -> UNION { ToolOutcomes(t) : t \in DATABASE_TOOLS \cup {"unknown_tool"} }] :
        \A i \in 1..Len(calls) : os[i] \in ToolOutcomes(calls[i]) }

\* What the capability may answer to the analysis prompt after the tool results.
AnalysisAnswers == { LLMRaises, LLMReturns("Conversion was 3.2% (1200 of 37500).") }

\* The arguments of the calls: the query text for sql_query.
ToolArgs(calls, query) ==
    [i \in 1..Len(calls) |-> IF calls[i] = "sql_query" THEN query ELSE ""]

\* What the capability and the tools may do during one analyze_request, the
\* capability writing its queries from the given texts.
CapabilitiesFor(queries) ==
    { [first |-> LLMRaises, tool_calls |-> <<>>, tool_args |-> <<>>, tool_outcomes |-> <<>>,
       default_outcome |-> "rows", final |-> LLMRaises] }
    \cup UNION { { [first |-> LLMReturns("I will query the table."),
                    tool_calls |-> c, tool_args |-> ToolArgs(c, q), tool_outcomes |-> os,
                    default_outcome |-> d, final |-> l] :
                   q \in (IF "sql_query" \in Range(c) THEN queries ELSE {""}),
                   os \in ToolOutcomeSeqs(c),
                   d \in (IF "sql_query" \in Range(c) THEN {"rows"} ELSE ToolOutcomes("sql_query")),
                   l \in AnalysisAnswers } : c \in ToolCalls }

AnalysisCapabilities == CapabilitiesFor({ SampleQuery })

\* What the collaborators do during one node.
NoCapability ==
    [interpret |-> LLMRaises, clarify |-> LLMRaises, synthesis |-> LLMRaises,
     analysis |-> CHOOSE a \in AnalysisCapabilities : a.first.raises]

Capabilities(node) ==
    CASE node = "interpret_question" ->
            { [NoCapability EXCEPT !.interpret = i, !.clarify = c] :
                i \in InterpretAnswers, c \in ClarifyAnswers }
      [] node = "perform_analysis" ->
            { [NoCapability EXCEPT !.analysis = a] : a \in AnalysisCapabilities }
      [] node = "synthesize_results" ->
            { [NoCapability EXCEPT !.synthesis = l] : l \in SynthesisAnswers }
      [] OTHER -> { NoCapability }

\* ------------------------------------------------------------------ run

NoResult ==
    [success |-> FALSE, response |-> "", needs_clarification |-> FALSE,
     clarifying_questions |-> <<>>, analysis_completed |-> FALSE,
     tools_used |-> <<>>, thread_id |-> ""]

NoPolicyCall == [called |-> FALSE, questions |-> <<>>, steps |-> <<>>, raises |-> FALSE]

NoContext == [provided |-> FALSE, tool_results |-> <<>>, original_question |-> ""]

NoExtraction ==
    [called |-> FALSE, context |-> NoContext,
     params |-> Params({}, <<>>, <<>>, <<>>, <<>>, <<>>, <<>>)]

NoAnalysisCall ==
    [called |-> FALSE, success |-> FALSE, tool_calls |-> <<>>,
     invoked |-> <<>>, llm |-> <<>>, messages |-> <<>>, dispatched |-> <<>>]

\* What one analyze_request did.
AnalysisCall(self, business_question, context, cap) ==
    [called |-> TRUE,
     success |-> analyze_request(self, business_question, context, cap).success,
     tool_calls |-> cap.tool_calls,
     invoked |-> tool_invocations(cap),
     llm |-> llm_invocations(cap),
     messages |-> tool_messages(cap.tool_calls, cap.tool_args, cap.tool_outcomes, 1),
     dispatched |-> dispatched_queries(business_question, cap)]

\* Before the first run: no state record, nothing returned.
Init ==
    /\ pc = "idle"
    /\ state = initial_state("", <<>>)
    /\ result = NoResult
    /\ trace = <<>>
    /\ policy_call = NoPolicyCall
    /\ analysis_call = NoAnalysisCall
    /\ conversation_memory = NoParams
    /\ extraction = NoExtraction
    /\ thread = <<>>

\* run, up to the invocation of the graph: a fresh state record for the
\* question and the history of the caller; the graph starts at interpret_question.
StartRun ==
    /\ pc \in { "idle", "returned" }
    /\ \E q \in Questions, h \in Histories :
          state' = initial_state(q, h)
    /\ pc' = "interpret_question"
    /\ result' = NoResult
    /\ trace' = <<>>
    /\ policy_call' = NoPolicyCall
    /\ analysis_call' = NoAnalysisCall
    /\ extraction' = NoExtraction
    /\ UNCHANGED <<conversation_memory, thread>>

\* One step of the compiled graph (self.app.invoke): the current node's
\* function runs on the state, then the node's outgoing edge picks the next.
GraphStep(capabilities) ==
    /\ pc \in Nodes
    /\ extraction' =
          IF pc = "perform_analysis"
          THEN [called |-> TRUE,
                context |-> analysis_context(state),
                params |-> _extract_query_params_from_context(conversation_memory,
                                                              analysis_context(state))]
          ELSE extraction
    /\ \E o \in capabilities :
          /\ state' = RunNode(conversation_memory, pc, state, o)
          /\ policy_call' =
                IF /\ pc = "interpret_question"
                   /\ interpret_user_question(state.user_question,
                                              state.conversation_history, o.interpret).success
                THEN LET called(p) == [called |-> TRUE, questions |-> p.questions,
                                       steps |-> p.steps, raises |-> p.raises]
                     IN  called(ask_clarifying_questions(state.user_question,
                                                         state.conversation_history, o.clarify))
                ELSE policy_call
          /\ analysis_call' =
                IF pc = "perform_analysis"
                THEN AnalysisCall(conversation_memory, state.user_question,
                                  analysis_context(state), o.analysis)
                ELSE analysis_call
          /\ conversation_memory' =
                IF pc = "perform_analysis"
                THEN memory_after(conversation_memory, o.analysis)
                ELSE conversation_memory
    /\ pc' = NextNode(pc, state')
    /\ trace' = Append(trace, [node |-> pc, error_before |-> state.error_occurred])
    /\ UNCHANGED result

Superstep == GraphStep(Capabilities(pc)) /\ UNCHANGED thread

\* The result dictionary, were analysis_completed taken from the absence of
\* an error instead of analysis_complete.
RunResult_completed_when_no_error(st) ==
    [success |-> ~st.error_occurred,
     response |-> st.final_response,
     needs_clarification |-> st.needs_clarification,
     clarifying_questions |-> st.clarifying_questions,
     analysis_completed |-> ~st.error_occurred,
     tools_used |-> st.technical_analysis.tools_used,
     thread_id |-> "default"]

\* The result dictionary run builds from the final state.
RunResult(st) ==
    [success |-> ~st.error_occurred,
     response |-> st.final_response,
     needs_clarification |-> st.needs_clarification,
     clarifying_questions |-> st.clarifying_questions,
     analysis_completed |-> st.analysis_complete,
     tools_used |-> st.technical_analysis.tools_used,
     thread_id |-> "default"]

\* run, after the graph ended: the result dictionary built from the final state.
ReturnResult ==
    /\ pc = "END"
    /\ result' = RunResult(state)
    /\ pc' = "returned"
    /\ UNCHANGED <<state, trace, policy_call, analysis_call, conversation_memory,
                   extraction, thread>>

Next == StartRun \/ Superstep \/ ReturnResult

Spec == Init /\ [][Next]_vars

\* ------------------------------------------------------------------ run, the executor raising

\* The result run would build in its except, were it to keep the flags of the
\* state the graph had reached.
run_exception_keeping_progress(text) ==
    [success |-> FALSE,
     response |-> "Error: " \o text,
     needs_clarification |-> state.needs_clarification,
     clarifying_questions |-> state.clarifying_questions,
     analysis_completed |-> state.analysis_complete,
     tools_used |-> state.technical_analysis.tools_used,
     thread_id |-> "default",
     error |-> text]

\* The result dictionary run builds in its except from the exception text
\* (thread_id: run called with its default).
run_exception(text) ==
    [success |-> FALSE,
     response |-> "Error: " \o text,
     needs_clarification |-> FALSE,
     clarifying_questions |-> <<>>,
     analysis_completed |-> FALSE,
     tools_used |-> <<>>,
     thread_id |-> "default",
     error |-> text]

\* self.app.invoke raises while the graph is running (the executor or its
\* checkpointer fails before the next node): run's except builds the result
\* and run returns.  No final state comes back: the state record of the run
\* is lost with the exception; the agents keep what they hold.
InvokeRaises ==
    /\ pc \in Nodes
    /\ result' = run_exception(ExceptionText)
    /\ pc' = "returned"
    /\ state' = initial_state("", <<>>)
    /\ policy_call' = NoPolicyCall
    /\ analysis_call' = NoAnalysisCall
    /\ extraction' = NoExtraction
    /\ UNCHANGED <<trace, conversation_memory, thread>>

NextInvoke == StartRun \/ Superstep \/ ReturnResult \/ InvokeRaises

SpecInvoke == Init /\ [][NextInvoke]_vars

\* ------------------------------------------------------------------ the agent called directly

PriorResult(tool, query) ==
    [tool |-> tool, args |-> query, outcome |-> "rows", forced |-> FALSE]

\* Sample debug_info.tool_results of an earlier analysis.
PriorAnalyses ==
    { << PriorResult("sql_query", QueryChileAugust),
         PriorResult("get_schema_info", ""),
         PriorResult("sql_query", QueryMobileJuly),
         PriorResult("sql_query", QueryBrasilSince) >> }

\* The contexts a caller hands to the Data Analyst for a question: none, or
\* a dictionary with the tool results of an earlier analysis under
\* question_interpretation.technical_details.debug_info and the question.
ContextsFor(question) ==
    { NoContext }
    \cup { [provided |-> TRUE, tool_results |-> Take(p, n), original_question |-> question] :
             p \in PriorAnalyses, n \in 0..MaxPriorResults }

Contexts == UNION { ContextsFor(q) : q \in ExtractorQuestions }

\* What the capability and the tools may do during an analyze_request called
\* directly: at most one tool call, with any of the query texts.
AnalystCapabilities ==
    { cap \in CapabilitiesFor(Queries) :
        /\ cap.tool_calls \in { <<>>, <<"sql_query">>, <<"get_schema_info">> }
        /\ cap.first.raises \/ ~cap.final.raises }

\* analyze_request(business_question, context): the extractor runs on the
\* context, then the analysis; the tool-call branch updates conversation_memory.
AnalyzeCall ==
    /\ \E q \in AnalystQuestions :
         \E context \in ContextsFor(q) :
            /\ extraction' =
                  [called |-> TRUE,
                   context |-> context,
                   params |-> _extract_query_params_from_context(conversation_memory, context)]
            /\ \E cap \in AnalystCapabilities :
                  /\ analysis_call' = AnalysisCall(conversation_memory, q, context, cap)
                  /\ conversation_memory' = memory_after(conversation_memory, cap)
    /\ UNCHANGED <<pc, state, result, trace, policy_call, thread>>

\* _extract_query_params_from_context(context), called on its own.
ExtractCall ==
    /\ \E context \in Contexts :
          extraction' =
              [called |-> TRUE,
               context |-> context,
               params |-> _extract_query_params_from_context(conversation_memory, context)]
    /\ UNCHANGED <<pc, state, result, trace, policy_call, analysis_call,
                   conversation_memory, thread>>

NextAnalyst == AnalyzeCall \/ ExtractCall

SpecAnalyst == Init /\ [][NextAnalyst]_vars

\* ------------------------------------------------------------------ synthesis called directly

\* The length of the longest history handed to synthesize_results.
MaxSynthesisHistory == 6

\* Questions handed to synthesize_results.
SynthesisQuestions ==
    { "How are sales?", "Explain the drop in sales", "Conversion rate Chile" }

\* Conversations whose histories are handed to synthesize_results: one whose
\* first user turn asks for details, one in which only the assistant explains.
SynthesisConversations ==
    { << Turn("user", "Dame más detalles de Chile"),
         Turn("assistant", "Chile: conversion fell with mobile traffic."),
         Turn("user", "How are sales?"),
         Turn("assistant", "Sales rose in August."),
         Turn("user", "and mobile?"),
         Turn("assistant", "Mobile rose too.") >>,
      << Turn("user", "ventas?"),
         Turn("assistant", "Sales fell."),
         Turn("user", "agosto"),
         Turn("assistant", "Let me explain: sales fell in August."),
         Turn("user", "and Chile?"),
         Turn("assistant", "Chile fell too.") >> }

SynthesisHistories ==
    { LastN(c, n) : c \in SynthesisConversations, n \in 0..MaxSynthesisHistory }

\* The technical analysis texts handed to synthesize_results.
TechnicalAnalyses ==
    { "Conversion was 3.2% (1200 of 37500).", "The query returned no rows." }

\* synthesize_results(user_question, technical_analysis, conversation_history)
\* as _synthesize_business_results calls it, on a state that holds a
\* technical analysis; trace records the synthesis_prompt it chose.
SynthesizeCall ==
    /\ \E q \in SynthesisQuestions, h \in SynthesisHistories, t \in TechnicalAnalyses,
          l \in SynthesisAnswers :
          /\ state' = _synthesize_business_results(
                          [initial_state(q, h) EXCEPT
                              !.technical_analysis = Dict([success |-> TRUE, analysis |-> t]),
                              !.analysis_complete = TRUE],
                          [NoCapability EXCEPT !.synthesis = l])
          /\ trace' = << [node |-> "synthesize_results",
                          error_before |-> FALSE,
                          prompt |-> IF details_scan_raises(h) THEN ""
                                     ELSE synthesis_prompt(q, h)] >>
    /\ UNCHANGED <<pc, result, policy_call, analysis_call, conversation_memory,
                   extraction, thread>>

NextSynthesis == SynthesizeCall

SpecSynthesis == Init /\ [][NextSynthesis]_vars

\* ------------------------------------------------------------------ a conversation thread

\* The questions of a conversation: a first question and a follow-up.
ThreadQuestions == { "Conversion rate Chile", "show me the full table" }

\* The history the caller hands to run: the exchanges of the thread so far,
\* a user turn and an assistant turn for each.
ThreadHistory(log) ==
    Flatten([i \in 1..Len(log) |->
        << Turn("user", log[i].question), Turn("assistant", log[i].response) >>])

\* What the analysis capability does in a conversation: it fails, requests
\* no tool, requests one query filtered on Chile and August 2025, or requests
\* the schema only (the forced default query follows).
ThreadAnalyses ==
    { [first |-> LLMRaises, tool_calls |-> <<>>, tool_args |-> <<>>, tool_outcomes |-> <<>>,
       default_outcome |-> "rows", final |-> LLMRaises] }
    \cup { [first |-> LLMReturns("I will query the table."),
            tool_calls |-> c, tool_args |-> ToolArgs(c, QueryChileAugust),
            tool_outcomes |-> [i \in 1..Len(c) |-> o],
            default_outcome |-> "rows", final |-> l] :
             c \in { <<>>, << "sql_query" >> }, o \in { "rows", "error" },
             l \in AnalysisAnswers }
    \cup { [first |-> LLMReturns("I will read the schema."),
            tool_calls |-> << "get_schema_info" >>, tool_args |-> << "" >>,
            tool_outcomes |-> << "ok" >>,
            default_outcome |-> "rows", final |-> l] : l \in AnalysisAnswers }

\* What the collaborators do in a conversation: the policy's capability asks
\* for nothing.
ThreadCapabilities(node) ==
    CASE node = "interpret_question" ->
            { [NoCapability EXCEPT !.interpret = i,
                                   !.clarify = LLMReturns("No clarification needed.")] :
                i \in InterpretAnswers }
      [] node = "perform_analysis" ->
            { [NoCapability EXCEPT !.analysis = a] : a \in ThreadAnalyses }
      [] node = "synthesize_results" ->
            { [NoCapability EXCEPT !.synthesis = l] : l \in SynthesisAnswers }
      [] OTHER -> { NoCapability }

\* A run that resumed the state record the thread's last run left, instead of
\* starting from initial_state.
ThreadStartRun_resuming ==
    /\ pc \in { "idle", "returned" }
    /\ Len(thread) < MaxRuns
    /\ \E q \in ThreadQuestions :
          state' = [state EXCEPT !.user_question = q,
                                 !.conversation_history = ThreadHistory(thread)]
    /\ pc' = "interpret_question"
    /\ result' = NoResult
    /\ trace' = <<>>
    /\ policy_call' = NoPolicyCall
    /\ analysis_call' = NoAnalysisCall
    /\ extraction' = NoExtraction
    /\ UNCHANGED <<conversation_memory, thread>>

\* The caller asks the next question of the thread, with the thread's
\* exchanges as history.
ThreadStartRun ==
    /\ pc \in { "idle", "returned" }
    /\ Len(thread) < MaxRuns
    /\ \E q \in ThreadQuestions :
          state' = initial_state(q, ThreadHistory(thread))
    /\ pc' = "interpret_question"
    /\ result' = NoResult
    /\ trace' = <<>>
    /\ policy_call' = NoPolicyCall
    /\ analysis_call' = NoAnalysisCall
    /\ extraction' = NoExtraction
    /\ UNCHANGED <<conversation_memory, thread>>

ThreadSuperstep == GraphStep(ThreadCapabilities(pc)) /\ UNCHANGED thread

\* run returns and the caller records the exchange.
ThreadReturn ==
    /\ pc = "END"
    /\ result' = RunResult(state)
    /\ pc' = "returned"
    /\ thread' = Append(thread, [question |-> state.user_question,
                                 response |-> state.final_response,
                                 dispatched |-> analysis_call.dispatched])
    /\ UNCHANGED <<state, trace, policy_call, analysis_call, conversation_memory, extraction>>

NextThread == ThreadStartRun \/ ThreadSuperstep \/ ThreadReturn

SpecThread == Init /\ [][NextThread]_vars

\* A run that has started goes on: the executor of the compiled graph runs the
\* next node, and run returns once the graph has ended.
RunAdvances ==
    /\ pc \in Nodes \cup { "END" }
    /\ pc' \in (Nodes \cup { "END", "returned" }) \ { pc }

\* A conversation thread whose runs are not abandoned half-way.
SpecThreadFair == SpecThread /\ WF_pc(RunAdvances)

\* ------------------------------------------------------------------ properties

\* The node that ran after the i-th node of the run, or the one about to run.
NodeAfter(i) == IF i < Len(trace) THEN trace[i + 1].node ELSE pc

Ran(node) == \E i \in 1..Len(trace) : trace[i].node = node

\* The response the error node writes for the state's error message.
ErrorResponse == _handle_error(state).final_response

\* The text the Clarifying node writes for the state's questions.
ClarificationResponse == "To answer accurately:" \o clarification_text(state.clarifying_questions, 1)

\* C1: at the end of every run, whichever path it took, the response returned
\* to the caller is a non-empty text.
C1_FinalResponseNonEmpty == pc = "returned" => result.response # ""

AnswerCase ==
    /\ result.success
    /\ ~result.needs_clarification
    /\ ~state.business_synthesis.empty
    /\ result.response = state.business_synthesis.business_response

ClarificationCase ==
    /\ result.success
    /\ result.needs_clarification
    /\ result.response = ClarificationResponse

ErrorCase ==
    /\ ~result.success
    /\ result.response = ErrorResponse

\* C2: every result of run is exactly one of: an answer (success, no
\* clarification), a clarification (success, needs_clarification, the
\* clarifying-question text), an error (no success, an error message).
C2_ExactlyOneOutcome ==
    pc = "returned" =>
        /\ AnswerCase \/ ClarificationCase \/ ErrorCase
        /\ ~(AnswerCase /\ ClarificationCase)
        /\ ~(AnswerCase /\ ErrorCase)
        /\ ~(ClarificationCase /\ ErrorCase)

\* C3: a run in which a stage set error_occurred passes through the error
\* node before it ends, and returns success=false with the error message and
\* the suggestion to rephrase.
C3_ErrorHandledBeforeEnd ==
    pc = "returned" /\ state.error_occurred =>
        /\ Ran("handle_error")
        /\ ~result.success
        /\ result.response = ErrorResponse

\* The Clarifying node never runs: the routing function returns "clarify" for
\* no state, so check_clarification is a node of the graph no run enters.
ClarifyingNeverRuns == pc # "check_clarification" /\ ~Ran("check_clarification")

\* The override tests of the routing function on the question and the history.
OverrideInInput ==
    \/ ContainsAny(lower(state.user_question), direct_answer_indicators)
    \/ ContainsAny(lower(state.user_question), rejection_phrases)
    \/ ContainsAny(lower(state.user_question), direct_answer_phrases)
    \/ ContainsAny(lower(state.user_question), metrics)
          /\ ContainsAny(lower(state.user_question), dimensions)
    \/ \E i \in 1..Len(state.conversation_history) :
           Contains(lower(EntryStr(state.conversation_history[i])), "clarific")

\* C4: after a successful interpretation the run goes to the Clarifying node
\* when the policy returned a question and neither the question nor the
\* history carries an override, and to Technical Analysis otherwise.
C4_ClarifyWhenPolicyAsks ==
    Len(trace) >= 1 /\ policy_call.called =>
        IF policy_call.questions # <<>> /\ ~OverrideInInput
        THEN NodeAfter(1) = "check_clarification"
        ELSE NodeAfter(1) = "perform_analysis"

\* C6: after Technical Analysis the run goes to the error node exactly when
\* analyze_request failed outright, and to Synthesis otherwise.
C6_AnalysisRouting ==
    \A i \in 1..Len(trace) :
        trace[i].node = "perform_analysis" =>
            /\ NodeAfter(i) = "handle_error" <=> ~analysis_call.success
            /\ NodeAfter(i) = "synthesize_results" <=> analysis_call.success

\* C6 witness: a tool call raised and the executed query returned zero rows,
\* analyze_request succeeded and the run is about to synthesize.
C6_Witness ==
    /\ pc = "synthesize_results"
    /\ analysis_call.called /\ analysis_call.success
    /\ \E i \in 1..Len(state.technical_analysis.tool_results) :
           state.technical_analysis.tool_results[i].outcome = "raise"
    /\ \E i \in 1..Len(state.technical_analysis.tool_results) :
           /\ state.technical_analysis.tool_results[i].tool = "sql_query"
           /\ state.technical_analysis.tool_results[i].outcome = "zero_rows"

\* C7: once error_occurred is true, the only node that still runs is the
\* error node.
C7_OnlyErrorNodeAfterError ==
    \A i \in 1..Len(trace) : trace[i].error_before => trace[i].node = "handle_error"

\* C7 witness: interpretation failed, the error node ran next and the run
\* returned without Technical Analysis or Synthesis.
C7_Witness ==
    /\ pc = "returned"
    /\ Len(trace) = 2
    /\ trace[1].node = "interpret_question"
    /\ trace[2].node = "handle_error" /\ trace[2].error_before
    /\ ~result.success

\* C8: for a question that contains a rejection phrase the policy returns no
\* questions right after the rejection test: it neither scans the history nor
\* invokes the capability.
C8_RejectionReturnsImmediately ==
    policy_call.called /\ ContainsAny(lower(state.user_question), rejection_phrases) =>
        /\ policy_call.questions = <<>>
        /\ policy_call.steps = <<"rejection">>

\* C8 witness: the policy ran on a question with a rejection phrase and a
\* history long enough to be scanned.
C8_Witness ==
    /\ policy_call.called
    /\ ContainsAny(lower(state.user_question), rejection_phrases)
    /\ Len(state.conversation_history) >= RecentWindow
    /\ policy_call.steps = <<"rejection">>

\* The phrases by which a user says "no more clarification".
NoMoreClarificationPhrases ==
    { "no quiero más clarificaciones", "no quiero más preguntas",
      "no quiero clarificación", "sin clarificaciones", "sin preguntas",
      "no más preguntas", "don't ask" }

HistoryRejectsClarification ==
    \E i \in 1..Len(state.conversation_history) :
        ContainsAny(lower(state.conversation_history[i].content), NoMoreClarificationPhrases)

\* C9: when a turn of the history carries a "no more clarification" phrase,
\* needs_clarification is false, as the policy's decision and in the result.
C9_HistoryRejectionNoClarification ==
    HistoryRejectsClarification =>
        /\ policy_call.called => policy_call.questions = <<>> /\ ~state.needs_clarification
        /\ pc = "returned" => ~result.needs_clarification

MarketWords == { "chile", "brasil", "argentina", "colombia", "peru" }

\* C10: for a question that names a metric and a market together the policy
\* returns no clarifying questions, whatever the capability answers.
C10_MetricAndMarketNoClarification ==
    /\ policy_call.called
    /\ ContainsAny(lower(state.user_question), metrics)
    /\ ContainsAny(lower(state.user_question), MarketWords)
    => policy_call.questions = <<>> /\ ~state.needs_clarification

\* An assistant turn that asked for clarification: it mentions one, or it is
\* the text the Clarifying node writes.
AskedForClarification(entry) ==
    /\ entry.role = "assistant"
    /\ \/ Contains(lower(entry.content), "clarification")
       \/ Contains(lower(entry.content), "clarificación")
       \/ Contains(entry.content, "To answer accurately:")

RecentTurns == LastN(state.conversation_history, RecentWindow)

HistoryForbidsClarification ==
    \/ Cardinality({ i \in 1..Len(RecentTurns) : AskedForClarification(RecentTurns[i]) }) >= 2
    \/ user_included_all(RecentTurns)

\* C11: for a history of any length, fewer than 3 turns included, the policy
\* returns no questions when its last 3 turns hold two assistant turns that
\* asked for clarification (the workflow's own clarification texts included)
\* or a user turn with an "include everything" word.
C11_HistoryRuleAnyLength ==
    policy_call.called /\ HistoryForbidsClarification => policy_call.questions = <<>>

\* C12: the policy returns at most 3 clarifying questions, and the
\* clarifying_questions of every run result holds at most 3 elements.
C12_AtMostThreeQuestions ==
    /\ policy_call.called => Len(policy_call.questions) <= 3
    /\ pc = "returned" => Len(result.clarifying_questions) <= 3

\* C12 witness: the capability's answer held more than 3 non-blank lines, and
\* the run returned the 3 questions the policy kept of them.
C12_Witness ==
    /\ pc = "returned"
    /\ policy_call.called
    /\ "llm" \in { policy_call.steps[i] : i \in 1..Len(policy_call.steps) }
    /\ Len(policy_call.questions) = 3
    /\ result.clarifying_questions = policy_call.questions

\* The number of sql_query invocations analyze_request made in this run.
QueriesAttempted ==
    Cardinality({ i \in 1..Len(analysis_call.invoked) : analysis_call.invoked[i] = "sql_query" })

\* The number of sql_query calls the capability requested in this run.
QueriesRequested ==
    Cardinality({ i \in 1..Len(analysis_call.tool_calls) : analysis_call.tool_calls[i] = "sql_query" })

\* C13: when the capability answers the analysis prompt without a tool call,
\* analyze_request executes exactly one query, the default one, and reports it
\* in its result (tools_used, query_executed and the tool results).
C13_DefaultQueryExecutedAndReported ==
    /\ analysis_call.called
    /\ analysis_call.llm[1] = "ok"
    /\ analysis_call.tool_calls = <<>>
    => /\ QueriesAttempted = 1
       /\ state.technical_analysis.query_executed
       /\ state.technical_analysis.tools_used = <<"sql_query">>
       /\ Len(state.technical_analysis.tool_results) = 1

\* C14 as stated: in every analyze_request that returns success exactly one
\* query was attempted, whatever the capability requested.
C14_ExactlyOneQueryAttempted ==
    analysis_call.called /\ analysis_call.success => QueriesAttempted = 1

\* C14 amended: in every analyze_request that returns success at least one
\* query was attempted: the forced default query alone when the capability
\* requested no query call, and one query per query call it requested otherwise.
C14_AtLeastOneQueryAttempted ==
    analysis_call.called /\ analysis_call.success =>
        /\ QueriesAttempted >= 1
        /\ QueriesAttempted = (IF QueriesRequested = 0 THEN 1 ELSE QueriesRequested)

\* C14 witness: a successful analyze_request whose capability requested only
\* tools other than the query tool, and one whose capability requested two
\* query calls, are both reachable; this is the first.
C14_Witness ==
    /\ analysis_call.called
    /\ analysis_call.success
    /\ analysis_call.tool_calls # <<>>
    /\ QueriesRequested = 0
    /\ QueriesAttempted = 1

\* An invocation of the capability raised inside analyze_request in this run.
CapabilityFailedInAnalysis ==
    \E i \in 1..Len(analysis_call.llm) : analysis_call.llm[i] = "raise"

\* C15: every failure of a capability invocation inside Technical Analysis,
\* the initial one or the follow-up one, is fatal: analyze_request returns
\* success = false, the stage sets error_occurred, and the run ends through
\* the error node with success = false.
C15_CapabilityFailureFatal ==
    analysis_call.called /\ CapabilityFailedInAnalysis =>
        /\ ~analysis_call.success
        /\ state.error_occurred
        /\ pc = "returned" => Ran("handle_error") /\ ~result.success

ToolErrorMessage == "Tool execution failed: " \o ExceptionText

RequestedBoundTools ==
    SelectSeq(analysis_call.tool_calls, LAMBDA t : t \in DATABASE_TOOLS)

RequestedToolRaised ==
    \E i \in 1..Len(analysis_call.messages) : analysis_call.messages[i].content = ToolErrorMessage

Forbidden(query) ==
    \/ ContainsAny(lower(query), { "drop", "delete", "truncate", "alter", "create",
                                   "insert", "update" })
    \/ ~Contains(lower(query), "funnels_resumido")

ForbiddenQueries == { q \in QueryTexts : Forbidden(q) }

\* C17: no query text with a data-definition or data-modification keyword, or
\* without a reference to funnels_resumido, is sent to the warehouse by the
\* query tool during an analyze_request.
C17_OnlySafeQueriesDispatched ==
    \A i \in 1..Len(analysis_call.dispatched) : analysis_call.dispatched[i] \notin ForbiddenQueries

Comparison(field, op, kind) == <<Lit(field), Ws0, Lit(op), Ws0, Quote, Cap(kind), Quote>>

\* The date literals of the equality and range filters of a query text: the
\* comparisons =, >=, <=, >, < and both ends of BETWEEN ... AND ...
DateFilterLiterals(query) ==
    UNION { Range(FindAll(query, Comparison("date", op, "date"))) :
              op \in { "=", ">=", "<=", ">", "<", "BETWEEN" } }
    \cup Range(FindAll(query, <<Lit("date"), Ws0, Lit("BETWEEN"), Ws0, Quote, Cap("date"), Quote,
                                Ws1, Lit("AND"), Ws1, Quote, Cap("date"), Quote>>))

\* The literals of the filters of the query texts of the model, by kind.
FilterLiterals ==
    [q \in Queries |->
        [dates |-> DateFilterLiterals(q),
         cultures |-> Range(FindAll(q, Comparison("culture", "=", "upper2"))),
         devices |-> Range(FindAll(q, Comparison("device", "=", "word"))),
         traffic_types |-> Range(FindAll(q, Comparison("traffic_type", "=", "word")))]]

\* C18: the parameters extracted from a context hold every culture, date,
\* device and traffic_type literal of the equality and range filters of the
\* prior executed queries; for the query filtered with culture = 'CL' and
\* date >= '2025-08-01' AND date <= '2025-08-31' they hold CL and both dates.
C18_EveryFilterLiteralExtracted ==
    extraction.called /\ extraction.context.provided =>
        \A i \in 1..Len(extraction.context.tool_results) :
            LET r == extraction.context.tool_results[i]
            IN  r.tool = "sql_query" =>
                  /\ FilterLiterals[r.args].dates \subseteq Range(extraction.params.dates)
                  /\ FilterLiterals[r.args].cultures \subseteq Range(extraction.params.cultures)
                  /\ FilterLiterals[r.args].devices \subseteq Range(extraction.params.devices)
                  /\ FilterLiterals[r.args].traffic_types \subseteq Range(extraction.params.traffic_types)

\* The part of C18 about the query filtered on CL and August 2025.
ChileAugustExtracted ==
    /\ extraction.called
    /\ \E i \in 1..Len(extraction.context.tool_results) :
          extraction.context.tool_results[i].args = QueryChileAugust
    => /\ "CL" \in Range(extraction.params.cultures)
       /\ { "2025-08-01", "2025-08-31" } \subseteq Range(extraction.params.dates)

\* C19: across two consecutive runs on one thread, where the first run's
\* analysis sent a query filtered on market CL and on the dates 2025-08-01 to
\* 2025-08-31 to the warehouse and the caller hands the first exchange as
\* history of the second run, the parameters extracted for the second run's
\* analysis contain CL and both dates.
C19_PriorQueryParametersPropagate ==
    /\ Len(thread) = 1
    /\ QueryChileAugust \in Range(thread[1].dispatched)
    /\ Len(state.conversation_history) = 2
    /\ extraction.called
    => /\ "CL" \in Range(extraction.params.cultures)
       /\ { "2025-08-01", "2025-08-31" } \subseteq Range(extraction.params.dates)

\* C20: the parameter extractor has no hidden mutable state: a call of
\* _extract_query_params_from_context on the context of the call before it
\* returns the result of the call before it, also when an analyze_request
\* that updated conversation_memory ran with the earlier call, and no step
\* that changes the agent's conversation_memory is a call of the extractor on
\* its own.
C20_ExtractorHasNoHiddenState ==
    [][ /\ (extraction.called /\ extraction'.called
            /\ extraction'.context = extraction.context)
           => extraction'.params = extraction.params
        /\ conversation_memory' # conversation_memory => ~ExtractCall ]_vars

\* The extractor has run on a context with earlier tool results after an
\* analyze_request stored a culture in conversation_memory.
C20_Witness ==
    /\ extraction.called
    /\ extraction.context.provided
    /\ extraction.context.tool_results # <<>>
    /\ extraction.params.keys # {}
    /\ analysis_call.called
    /\ conversation_memory.culture # ""

\* ---- C21

\* No value occurs twice in the list.
NoDuplicates(seq) == \A i, j \in 1..Len(seq) : seq[i] = seq[j] => i = j

\* The query texts the extractor read from the context of its last call.
ScannedQueries == Range(extraction.params.last_executed_queries)

\* The question of the extractor's last call, lower-cased.
ScannedQuestion == lower(extraction.context.original_question)

\* A date that a month name followed by a year in the question stands for:
\* the first or the 31st day of that month of that year.
DateOfQuestion(d) ==
    /\ Len(d) = 10
    /\ SubSeq(d, 8, 10) \in { "-01", "-31" }
    /\ \E m \in 1..Len(months) :
          /\ SubSeq(d, 5, 7) = "-" \o months[m][2]
          /\ \/ Contains(ScannedQuestion, months[m][1] \o " " \o SubSeq(d, 1, 4))
             \/ Contains(ScannedQuestion, months[m][1] \o " de " \o SubSeq(d, 1, 4))

\* C21: in every result of the parameter extractor no value occurs twice
\* within a parameter kind (dates, cultures, devices, traffic types, metrics);
\* every value is a literal of a query text the context holds or stands for a
\* country, device or month the question names; a kind without a match is
\* absent from the result (empty when no context was given), never filled in.
C21_ExtractedValuesAreMatches ==
    extraction.called =>
      LET p == extraction.params
      IN  /\ NoDuplicates(p.dates) /\ NoDuplicates(p.cultures) /\ NoDuplicates(p.devices)
          /\ NoDuplicates(p.traffic_types) /\ NoDuplicates(p.metrics_of_interest)
          /\ \A d \in Range(p.dates) :
                \/ \E q \in ScannedQueries : Contains(q, "'" \o d \o "'")
                \/ DateOfQuestion(d)
          /\ \A c \in Range(p.cultures) :
                \/ \E q \in ScannedQueries : Contains(q, "'" \o c \o "'")
                \/ \E k \in 1..Len(countries) :
                      countries[k][2] = c /\ Contains(ScannedQuestion, countries[k][1])
          /\ \A d \in Range(p.devices) :
                \/ \E q \in ScannedQueries : Contains(q, "'" \o d \o "'")
                \/ d = "desktop" /\ Contains(ScannedQuestion, "desktop")
                \/ d = "mobile" /\ ContainsAny(ScannedQuestion, { "mobile", "móvil" })
          /\ \A t \in Range(p.traffic_types) :
                \E q \in ScannedQueries : Contains(q, "'" \o t \o "'")
          /\ \A m \in Range(p.metrics_of_interest) :
                \E q \in ScannedQueries : Contains(lower(q), m)
          /\ extraction.context.provided =>
                /\ "dates" \in p.keys <=> p.dates # <<>>
                /\ "cultures" \in p.keys <=> p.cultures # <<>>
                /\ "devices" \in p.keys <=> p.devices # <<>>
                /\ "traffic_types" \in p.keys <=> p.traffic_types # <<>>
                /\ "metrics_of_interest" \in p.keys <=> p.metrics_of_interest # <<>>
          /\ ~extraction.context.provided =>
                p.dates = <<>> /\ p.cultures = <<>> /\ p.devices = <<>>
                /\ p.traffic_types = <<>> /\ p.metrics_of_interest = <<>>

\* The extractor has run on a context whose earlier queries and question name
\* the same device and the same date, and on which one kind has no match.
C21_Witness ==
    /\ extraction.called
    /\ QueryChileAugust \in ScannedQueries
    /\ QueryMobileJuly \in ScannedQueries
    /\ Contains(ScannedQuestion, "mobile")
    /\ DateOfQuestion("2025-08-01")
    /\ extraction.params.devices = << "mobile" >>
    /\ "2025-08-01" \in Range(extraction.params.dates)
    /\ "BR" \in Range(extraction.params.cultures)
    /\ "metrics_of_interest" \in extraction.params.keys

\* ---- C22

\* A state record without the agent's conversation_memory that the technical
\* result carries under debug_info; run returns nothing of it.
WithoutDebugMemory(st) == [st EXCEPT !.technical_analysis.conversation_memory = <<>>]

\* C22: every run is independent of the runs before it.  It starts from a
\* state record whose interpretation, clarifying questions, technical result,
\* synthesis, error flag, error message and final response are empty, whatever
\* the run before left; each node leaves the state that it leaves on a new
\* orchestrator (an agent with an empty conversation_memory) for the same
\* state and some answer of the collaborators; and what run returns is read
\* from that state alone.  Hence the result is determined by the run's
\* question, history and capability answers.
C22_RunsAreIndependent ==
    [][ /\ (pc \in { "idle", "returned" } /\ pc' = "interpret_question") =>
              /\ state'.question_interpretation = EmptyDict
              /\ state'.clarifying_questions = <<>>
              /\ state'.technical_analysis = EmptyDict
              /\ state'.business_synthesis = EmptyDict
              /\ ~state'.error_occurred /\ ~state'.needs_clarification
              /\ ~state'.analysis_complete
              /\ state'.error_message = ""
              /\ state'.final_response = ""
        /\ pc \in Nodes =>
              \E o \in ThreadCapabilities(pc) :
                 /\ WithoutDebugMemory(state') =
                       WithoutDebugMemory(RunNode(NoParams, pc, WithoutDebugMemory(state), o))
                 /\ pc' = NextNode(pc, WithoutDebugMemory(state'))
        /\ (pc = "END" /\ pc' = "returned") =>
              result' = RunResult(WithoutDebugMemory(state)) ]_vars

\* The second run of a conversation has returned, the first having left a
\* culture in conversation_memory and a technical result in its state.
C22_Witness ==
    /\ Len(thread) = 2
    /\ pc = "returned"
    /\ thread[1].dispatched # <<>>
    /\ conversation_memory.culture # ""
    /\ result.success
    /\ result.analysis_completed

\* ---- C23

\* C23: the technical result a run stores in its WorkflowState holds no value
\* of another run on the same orchestrator: the conversation_memory under its
\* debug_info, when it has one, holds the query parameters of this run's own
\* queries and nothing else.
C23_TechnicalResultHoldsOwnValuesOnly ==
    state.technical_analysis.conversation_memory \in
        { <<>>, << update(NoParams, state.technical_analysis.query_parameters) >> }

\* ---- C24

\* The history scan of the clarification policy applies to a history with an
\* entry whose content is no text.
UnparseableHistoryInWindow ==
    /\ Len(state.conversation_history) >= RecentWindow
    /\ \E i \in 1..Len(state.conversation_history) : ~state.conversation_history[i].is_text

\* C24: when the clarification logic meets input it cannot parse (a history
\* entry whose content is no text), the run does not fail: once the question
\* is interpreted, no clarifying question is asked, error_occurred stays false
\* and the run continues with Technical Analysis.
C24_UnparseableHistoryDoesNotFailRun ==
    ( /\ Len(trace) = 1
      /\ trace[1].node = "interpret_question"
      /\ ~state.question_interpretation.empty
      /\ UnparseableHistoryInWindow )
    => /\ ~state.error_occurred
       /\ state.clarifying_questions = <<>>
       /\ pc = "perform_analysis"

\* ---- C25

\* A query of this run's analysis went to the warehouse and returned no row:
\* the tool's output for it says success with rows_returned 0.
ZeroRowsReturned ==
    \/ \E i \in 1..Len(analysis_call.messages) : analysis_call.messages[i].content = "zero_rows"
    \/ \E i \in 1..Len(state.technical_analysis.tool_results) :
          state.technical_analysis.tool_results[i].outcome = "zero_rows"

\* C25: a query that returns zero rows is not an error.  When a query of the
\* analysis returned no row and no invocation of the capability failed,
\* analyze_request returns success = true, Technical Analysis leaves
\* error_occurred false, the run goes on to Synthesis, and it ends with
\* success = true when Synthesis answers.
C25_ZeroRowsIsNotAnError ==
    analysis_call.called /\ ZeroRowsReturned /\ ~CapabilityFailedInAnalysis =>
        /\ analysis_call.success
        /\ state.analysis_complete
        /\ \A i \in 1..Len(trace) :
              trace[i].node = "perform_analysis" =>
                 /\ NodeAfter(i) = "synthesize_results"
                 /\ i < Len(trace) => ~trace[i + 1].error_before
        /\ (pc = "returned" /\ ~state.business_synthesis.empty) => result.success

\* A run whose only query returned no row has gone through Synthesis and
\* returned success.
C25_Witness ==
    /\ pc = "returned"
    /\ analysis_call.called
    /\ Len(analysis_call.dispatched) = 1
    /\ Len(state.technical_analysis.tool_results) = 1
    /\ state.technical_analysis.tool_results[1].outcome = "zero_rows"
    /\ Ran("synthesize_results")
    /\ result.success

\* ---- C26

\* Technical Analysis found no data: it ran at least one query and every
\* query it ran returned no row.
AnalysisFoundNoData ==
    LET queried == SelectSeq(state.technical_analysis.tool_results,
                             LAMBDA r : r.tool = "sql_query")
    IN  /\ state.analysis_complete
        /\ queried # <<>>
        /\ \A i \in 1..Len(queried) : queried[i].outcome = "zero_rows"

\* The percentages a text states: a % sign with the three characters before it.
Percentages(text) ==
    { SubSeq(text, i - 3, i) : i \in { j \in 4..Len(text) : SubSeq(text, j, j) = "%" } }

\* C26: in every run whose Technical Analysis found no data, the response the
\* run returns says "no data" and states no percentage that the technical
\* result does not hold.
C26_NoDataIsStated ==
    (pc = "returned" /\ AnalysisFoundNoData /\ result.success) =>
        /\ Contains(lower(result.response), "no data")
        /\ \A p \in Percentages(result.response) : Contains(state.technical_analysis.analysis, p)

\* ---- C27

\* The nodes that ran in this run, in order.
NodesRun == [i \in 1..Len(trace) |-> trace[i].node]

\* C27: the stages run in the order of the graph and each at most once:
\* interpret_question first; perform_analysis only right after an
\* interpretation that succeeded; synthesize_results only right after an
\* analysis that succeeded; check_clarification only right after
\* interpretation and last; handle_error only right after the stage that
\* failed, and last.  A run takes one of the clarification path, the analysis
\* path and the error path, the error path alone being able to follow a stage
\* of the analysis path.
C27_StagesInOrder ==
    /\ NoDuplicates(NodesRun)
    /\ Len(trace) >= 1 => NodesRun[1] = "interpret_question"
    /\ \A i \in 1..Len(trace) :
          /\ NodesRun[i] = "perform_analysis" =>
                /\ i = 2
                /\ ~trace[i].error_before
                /\ ~state.question_interpretation.empty
          /\ NodesRun[i] = "synthesize_results" =>
                /\ i = 3 /\ NodesRun[2] = "perform_analysis"
                /\ ~trace[i].error_before
                /\ state.analysis_complete
          /\ NodesRun[i] = "check_clarification" =>
                i = 2 /\ Len(trace) = 2 /\ ~trace[i].error_before
          /\ NodesRun[i] = "handle_error" =>
                /\ i = Len(trace) /\ i >= 2
                /\ trace[i].error_before /\ ~trace[i - 1].error_before
                /\ NodesRun[i - 1] \in { "interpret_question", "perform_analysis" }
    /\ Ran("check_clarification") =>
          ~Ran("perform_analysis") /\ ~Ran("synthesize_results") /\ ~Ran("handle_error")
    /\ Ran("synthesize_results") => ~Ran("handle_error")
    /\ pc \in { "END", "returned" } =>
          NodesRun[Len(trace)] \in { "check_clarification", "synthesize_results", "handle_error" }

\* A run has ended through the error node after its analysis failed.
C27_Witness ==
    /\ pc = "returned"
    /\ NodesRun = << "interpret_question", "perform_analysis", "handle_error" >>
    /\ ~result.success

\* ---- C28

\* The stage nodes and the error or clarification nodes that ran in this run.
StagesRun ==
    SelectSeq(NodesRun, LAMBDA n :
        n \in { "interpret_question", "perform_analysis", "synthesize_results" })

ErrorOrClarificationRun ==
    SelectSeq(NodesRun, LAMBDA n : n \in { "check_clarification", "handle_error" })

\* C28: every run terminates after a bounded number of stage executions: at
\* most three stages and at most one error or clarification stage run, no
\* node runs twice, an analysis invokes each requested tool once and the forced
\* default query at most once and the capability at most twice, and every
\* run that has started returns.
C28_RunTerminatesWithinBound ==
    /\ [] ( /\ Len(StagesRun) <= 3
            /\ Len(ErrorOrClarificationRun) <= 1
            /\ \A i, j \in 1..Len(trace) : trace[i].node = trace[j].node => i = j
            /\ analysis_call.called =>
                  /\ Len(analysis_call.invoked) <= Len(analysis_call.tool_calls) + 1
                  /\ Len(analysis_call.dispatched) <= Len(analysis_call.invoked)
                  /\ Len(analysis_call.llm) <= 2 )
    /\ (pc \in Nodes) ~> (pc = "returned")

\* A run of three stages, whose analysis invoked the requested tool and the
\* forced default query, has returned.
C28_Witness ==
    /\ pc = "returned"
    /\ Len(StagesRun) = 3
    /\ Len(analysis_call.tool_calls) = 1
    /\ Len(analysis_call.invoked) = 2
    /\ Len(analysis_call.llm) = 2

\* ---- C29

\* C29: the query_executed flag of the result of analyze_request is true
\* exactly when the call sent at least one query to the warehouse (a query the
\* keyword filter refused, one that failed before it was sent, or a forced
\* default query that could not be run does not count).
C29_QueryExecutedIffDispatched ==
    (analysis_call.called /\ analysis_call.success /\ pc # "interpret_question") =>
        (state.technical_analysis.query_executed <=> analysis_call.dispatched # <<>>)

\* ---- C30

\* The filters the keywords of a question call for: the code of the first
\* known market it names, and its device.
FiltersFor(question) ==
    LET query_lower == lower(question)
        found == { i \in 1..Len(countries) : Contains(query_lower, countries[i][1]) }
    IN  (IF found = {} THEN {}
         ELSE { "culture = '" \o countries[CHOOSE i \in found : \A j \in found : i <= j][2] \o "'" })
        \cup (IF Contains(query_lower, "mobile") \/ Contains(query_lower, "móvil")
              THEN { "device = 'mobile'" }
              ELSE IF Contains(query_lower, "desktop") \/ Contains(query_lower, "escritorio")
              THEN { "device = 'desktop'" }
              ELSE {})

\* FiltersFor for the questions of the model, computed once.
filters_for == [q \in Questions |-> FiltersFor(q)]

\* The forced default queries in the result of the analysis of this run.
ForcedQueries ==
    LET forced == SelectSeq(state.technical_analysis.tool_results, LAMBDA r : r.forced)
    IN  { forced[i].args : i \in 1..Len(forced) }

\* C30: a default query synthesized because the capability requested no query
\* (no tool at all, or only tools other than sql_query) carries, besides the
\* 30-day window, the culture and the device filter of the market and the
\* device the question names.
C30_DefaultQueryCarriesFilters ==
    \A query \in ForcedQueries :
        /\ Contains(query, "INTERVAL '30 days'")
        /\ \A f \in filters_for[state.user_question] : Contains(query, f)

\* ---- C31

\* The number a text of digits denotes.
RECURSIVE ToNat(_)
ToNat(digits) ==
    IF digits = "" THEN 0
    ELSE LET last == SubSeq(digits, Len(digits), Len(digits))
             value == CHOOSE d \in 0..9 : SubSeq(Digits, d + 1, d + 1) = last
         IN  10 * ToNat(SubSeq(digits, 1, Len(digits) - 1)) + value

\* The last calendar day of a month of a year.
LastDay(year, month_num) ==
    IF month_num \in { "04", "06", "09", "11" } THEN "30"
    ELSE IF month_num # "02" THEN "31"
    ELSE LET y == ToNat(year)
         IN  IF y % 4 = 0 /\ (y % 100 # 0 \/ y % 400 = 0) THEN "29" ELSE "28"

\* The months a question names with a four-digit year after them, each as
\* <<year, number of the month>>.
NamedMonths(question) ==
    LET question_lower == lower(question)
    IN  { <<FindAll(question_lower, year_patterns(months[m][1])[1])[1], months[m][2]>> :
            m \in { m \in 1..Len(months) :
                      FindAll(question_lower, year_patterns(months[m][1])[1]) # <<>> } }

\* NamedMonths for the questions handed to the extractor, computed once.
named_months_of == [q \in ExtractorQuestions |-> NamedMonths(q)]

\* C31: for a question that names a month followed by a four-digit year, the
\* dates the Parameter Extractor returns hold the first day and the last
\* calendar day of that month.
C31_MonthRangeIsCalendarRange ==
    (extraction.called /\ extraction.context.provided) =>
        \A ym \in named_months_of[extraction.context.original_question] :
            /\ ym[1] \o "-" \o ym[2] \o "-01" \in Range(extraction.params.dates)
            /\ ym[1] \o "-" \o ym[2] \o "-" \o LastDay(ym[1], ym[2])
                  \in Range(extraction.params.dates)

\* ---- C32

\* A detail phrase occurs in the current question or in one of the last 4
\* entries of the history.
DetailPhraseInWindow ==
    \/ ContainsAny(lower(state.user_question), detail_phrases)
    \/ \E e \in Range(LastN(state.conversation_history, 4)) :
          e.role = "user" /\ ContainsAny(lower(e.content), detail_phrases)

\* C32: synthesize_results chooses the detailed prompt exactly when a detail
\* phrase occurs in the current question or in a user turn among the last 4
\* history entries; a phrase only in an older turn leaves the concise prompt.
C32_DetailedIffPhraseInWindow ==
    (trace # <<>> /\ trace[1].node = "synthesize_results" /\ pc = "idle") =>
        (trace[1].prompt = "detailed" <=> DetailPhraseInWindow)

\* ---- C33

\* A step of a run in progress: a node of the graph ran (no new run started).
StepOfRun == pc \in Nodes /\ pc' # "interpret_question"

\* C33: in a run, question_interpretation and clarifying_questions change
\* only in interpret_question, technical_analysis only in perform_analysis,
\* business_synthesis only in synthesize_results, and once one of these
\* fields or final_response holds a non-empty value no later node or routing
\* decision of the run changes it.
C33_FieldsWrittenOnce ==
    [][ StepOfRun =>
          /\ state'.question_interpretation # state.question_interpretation =>
                pc = "interpret_question" /\ state.question_interpretation.empty
          /\ state'.clarifying_questions # state.clarifying_questions =>
                pc = "interpret_question" /\ state.clarifying_questions = <<>>
          /\ state'.technical_analysis # state.technical_analysis =>
                pc = "perform_analysis" /\ state.technical_analysis.empty
          /\ state'.business_synthesis # state.business_synthesis =>
                pc = "synthesize_results" /\ state.business_synthesis.empty
          /\ state'.final_response # state.final_response =>
                state.final_response = "" ]_vars

\* A run in which every one of the five fields was written has returned.
C33_Witness ==
    /\ pc = "returned"
    /\ ~state.question_interpretation.empty
    /\ state.clarifying_questions # <<>>
    /\ ~state.technical_analysis.empty
    /\ ~state.business_synthesis.empty
    /\ state.final_response # ""
    /\ Len(trace) = 3

\* ---- C34

\* C34: run never propagates an exception: when the executor raises while the
\* graph is running, run returns a result with success false,
\* needs_clarification false, no clarifying questions, analysis_completed
\* false, no tools, the thread_id of the call, and the exception text in
\* response and in error.
C34_ExceptionBecomesFailureResult ==
    [][ (pc \in Nodes /\ pc' \notin Nodes \cup { "END" }) =>
          /\ pc' = "returned"
          /\ ~result'.success
          /\ ~result'.needs_clarification
          /\ result'.clarifying_questions = <<>>
          /\ ~result'.analysis_completed
          /\ result'.tools_used = <<>>
          /\ result'.thread_id = "default"
          /\ "error" \in DOMAIN result' /\ result'.error = ExceptionText
          /\ Contains(result'.response, ExceptionText) ]_vars

\* The executor raised after interpret_question and perform_analysis had run;
\* run has returned the failure result.
C34_Witness ==
    /\ pc = "returned"
    /\ "error" \in DOMAIN result
    /\ Len(trace) = 2
    /\ trace[2].node = "perform_analysis"
    /\ ~result.success
    /\ ~result.analysis_completed

\* ---- C35

Placeholder == "Analizando su consulta..."

\* C35: the placeholder _check_clarification writes when it forces a direct
\* answer is never the response run returns, unless perform_analysis and
\* synthesize_results both ran in the run.
C35_PlaceholderNeverReturned ==
    (pc = "returned" /\ result.response = Placeholder) =>
        Ran("perform_analysis") /\ Ran("synthesize_results")

\* The case in which _check_clarification would write the placeholder: the
\* policy asked questions and the question holds a direct-answer phrase; the
\* run went on to the analysis and has returned another response.
C35_Witness ==
    /\ pc = "returned"
    /\ state.clarifying_questions # <<>>
    /\ ContainsAny(lower(state.user_question), direct_answer_phrases)
    /\ Ran("perform_analysis")
    /\ result.response # Placeholder

\* ---- C36

\* C36: in every result run returns, needs_clarification is true exactly when
\* clarifying_questions is non-empty.
C36_FlagMatchesQuestions ==
    pc = "returned" =>
        (result.needs_clarification <=> result.clarifying_questions # <<>>)

\* The policy asked questions, the routing decision forced a direct answer,
\* the run was answered, and the result holds the flag and the questions.
C36_Witness ==
    /\ pc = "returned"
    /\ Ran("synthesize_results")
    /\ result.success
    /\ result.needs_clarification
    /\ Len(result.clarifying_questions) >= 1

\* ---- C37

C38_ToolsUsedAreToolsInvoked ==
    pc = "returned" =>
        /\ \A t \in Range(result.tools_used) : t \in Range(analysis_call.invoked)
        /\ analysis_call.dispatched # <<>> => "sql_query" \in Range(result.tools_used)
        /\ "sql_query" \in Range(result.tools_used) =>
              \E r \in Range(state.technical_analysis.tool_results) : r.tool = "sql_query"

====
